---- MODULE Spec2Model ----
(***************************************************************************)
(* Verification model of the protocol-to-delivery pipeline:                *)
(*   - the bounded resource guards (fixed-window rate limiter, bounded     *)
(*     counter) of src/src/plugin-sdk/webhook-memory-guards.ts,            *)
(*   - the two PromptStreamProjector variants (the gating one that         *)
(*     consumes prompt ids, and the ungated one that only looks them up),  *)
(*   - the reply projector createAcpReplyProjector.                        *)
(* Each subsystem has its own specification; the variables of the other    *)
(* subsystems stay unchanged under it.                                     *)
(***************************************************************************)
EXTENDS Integers, Sequences, FiniteSets, TLC

VARIABLES
    guard,          \* which guard object the run has created: "limiter" | "counter"
    state,          \* limiter: Map<string, FixedWindowState>, in insertion order
    lastPruneMs,    \* limiter: lastPruneMs
    counters,       \* counter: Map<string, CounterState>, in insertion order
    ctrLastPruneMs, \* counter: lastPruneMs
    lastCall,       \* observation: the last guard call and what it returned
    win,            \* observation: the window the call sequence defines for WatchedKey
    mono,           \* observation: the latest timestamp while the timestamps passed
                    \* so far never decreased, -1 once one did
    ttlMs,          \* counter: the configured ttlMs (0: no TTL)
    intervalMs,     \* the guard's pruneIntervalMs (the configured option, normalised)
    observe,        \* which observations the run keeps: "windows" (win, mono),
                    \* "counts" (run), "sweeps" (sweep, mono), "order" (recency),
                    \* "reference" (ref, mono) or "limits" (limited, mono)
    run,            \* observation: the count the call sequence defines for WatchedKey
    sweep,          \* observation: when the guard swept last, and whether clear()
                    \* was called since
    recency,        \* observation: the keys called since the last clear(), in the
                    \* order of their latest call
    ref,            \* observation: a limiter that keeps every key's window and never
                    \* sweeps or evicts, fed with the same calls ("reference" runs)
    limited,        \* observation: the window in which WatchedKey was reported
                    \* limited last, and when it was called last ("limits" runs)
    promptRequestIds,   \* gating projector: promptRequestIds
    ungatedRequestIds,  \* ungated projector: promptRequestIds
    lastLine,       \* observation: the line ingested last
    gatedOut,       \* observation: what the gating projector returned for it
    ungatedOut,     \* observation: what the ungated projector returned for it
    tick,           \* observation: parity of the number of lines ingested
    awaiting,       \* observation: ids of prompt requests with no response line yet
    honoredG,       \* observation: ids whose response the gating projector honoured
    honoredU,       \* observation: ids whose response the ungated projector honoured
    cfg,            \* reply projector: cfg.acp.stream, as configured
    settings,       \* reply projector: settings (resolveAcpProjectionSettings(cfg))
    shouldSendToolSummaries,    \* reply projector: params.shouldSendToolSummaries
    scenario,       \* which family of events the run feeds to onEvent
    emittedTurnChars,
    emittedMetaEvents,
    truncationNoticeEmitted,
    lastStatusHash,
    lastToolHash,
    lastUsageTuple,
    toolLifecycleById,  \* Map<string, ToolLifecycleState>, in insertion order
    chunkerBuffer,  \* text appended to the chunker and not yet emitted as a chunk
    pipelineQueue,  \* chunks enqueued in the block reply pipeline, not yet delivered
    lastEvent,      \* observation: the event (or call) processed last
    lastDeliveries, \* observation: the deliver(...) calls it made, in order
    turnEvents,     \* observation: calls made since the last turn boundary
    turns,          \* observation: turn boundaries so far
    offered,        \* observation: visible output text offered in the turn (a prefix)
    blockText,      \* observation: text delivered as blocks in the turn
    notices,        \* observation: "output truncated" deliveries in the turn
    afterCompleted, \* observation: -1, or the deliveries for WatchedTool since its
                    \* "completed" event was processed in the turn
    turnStatuses,   \* observation: status events delivered in the turn
    prevStatuses,   \* observation: status events delivered in the previous turn
                    \* (kept until the first status / tool event of the turn)
    metaSeen,       \* observation: a status / tool event or a notice occurred in the turn
    metaDelivered,  \* observation: "tool"-kind deliveries of the turn other than
                    \* the "output truncated" notice
    termDeliveries, \* observation: deliveries for WatchedTool in the turn that carry
                    \* a terminal status
    startDeliveries,    \* observation: deliveries for WatchedTool in the turn that
                        \* announce a start (tag tool_call or status in_progress)
    lastStatusText, \* observation: text of the latest status delivery of the turn
    lastUsageEvent, \* observation: the latest usage_update event of the turn
    terminalSeen,   \* observation: an event for WatchedTool with a terminal status
                    \* occurred in the turn (kept in the "lifecycle" runs)
    inflight,       \* onEvent calls that are suspended at an await: for each, the
                    \* steps it has still to take (callers that do not await)
    waiting,        \* waitForExit: the promise exists and its listeners were added
    settled,        \* waitForExit: let settled
    exit,           \* waitForExit: the value the promise resolved with, or Pending
    listeners,      \* the child's events that still have a once() listener
    emitted,        \* observation: the events the child has emitted since, in order
    resolveCalls    \* observation: the number of calls of resolve()

guardVars == <<guard, state, lastPruneMs, counters, ctrLastPruneMs, lastCall, win,
               mono, ttlMs, intervalMs,
               observe, run, sweep, recency, ref, limited>>

projVars == <<promptRequestIds, ungatedRequestIds, lastLine, gatedOut, ungatedOut,
              tick, awaiting, honoredG, honoredU>>

replyVars == <<cfg, settings, shouldSendToolSummaries, scenario, emittedTurnChars,
               emittedMetaEvents, truncationNoticeEmitted, lastStatusHash, lastToolHash,
               lastUsageTuple, toolLifecycleById, chunkerBuffer, pipelineQueue,
               lastEvent, lastDeliveries, turnEvents, turns, offered, blockText,
               notices, afterCompleted, turnStatuses, prevStatuses, metaSeen,
               metaDelivered, termDeliveries, startDeliveries, lastStatusText,
               lastUsageEvent, terminalSeen, inflight>>

exitVars == <<waiting, settled, exit, listeners, emitted, resolveCalls>>

vars == <<guardVars, projVars, replyVars, exitVars>>

(***************************************************************************)
(* Bounds of the model.                                                    *)
(***************************************************************************)
MaxTime == 3
\* calls per turn and turn boundaries per run of the reply projector
MaxTurnEvents == 3
MaxTurns == 1

None == "none"

(***************************************************************************)
(* Configuration of the guards under test (options after the Math.max /    *)
(* Math.floor normalisation of the constructors).                          *)
(***************************************************************************)
windowMs == 2
maxRequests == 2
maxTrackedKeys == 2
pruneIntervalMs == 2
TtlMs == 2
ctrPruneIntervalMs == 2

\* The smallest interval the guards accept: Math.max(1, ...).
ShortPruneIntervalMs == 1

KeyNames == <<"a", "b", "c", "d", "e", "f">>
NonEmptyKeys == {KeyNames[i] : i \in 1..(maxTrackedKeys + 1)}
Keys == {""} \cup NonEmptyKeys
Times == 0..MaxTime

(***************************************************************************)
(* A JavaScript Map, as the sequence of its entries in insertion order.    *)
(***************************************************************************)
MapHas(m, k) == \E i \in 1..Len(m) : m[i].key = k

MapGet(m, k) == m[CHOOSE i \in 1..Len(m) : m[i].key = k]

MapDelete(m, k) == SelectSeq(m, LAMBDA e : e.key # k)

\* Map.prototype.set: an existing key keeps its position, a new one is appended.
MapSet(m, k, v) ==
    IF MapHas(m, k)
    THEN [i \in 1..Len(m) |-> IF m[i].key = k THEN v ELSE m[i]]
    ELSE Append(m, v)

MapKeys(m) == {m[i].key : i \in 1..Len(m)}

\* delete-then-set: the key becomes the most recently inserted one.
\* Variant of touch that sets the value without deleting the key first.
touchInPlace(m, k, v) == MapSet(m, k, v)

touch(m, k, v) == MapSet(MapDelete(m, k), k, v)

\* infra/map-size.js: drop the oldest entries until at most max remain.
RECURSIVE pruneMapToMaxSize(_, _)
pruneMapToMaxSize(m, max) ==
    IF Len(m) > max THEN pruneMapToMaxSize(Tail(m), max) ELSE m

(***************************************************************************)
(* Fixed-window rate limiter.                                              *)
(***************************************************************************)
\* Variant of prune that removes a window one millisecond before it ends.
pruneTooEarly(m, nowMs) == SelectSeq(m, LAMBDA e : ~(nowMs - e.at >= windowMs - 1))

prune(m, nowMs) == SelectSeq(m, LAMBDA e : ~(nowMs - e.at >= windowMs))

\* Variant of the test for a due sweep that forgets the interval.
LimiterSweepAlwaysDue(nowMs) == nowMs - lastPruneMs >= 0

LimiterSweepDue(nowMs) == nowMs - lastPruneMs >= intervalMs

LimiterSwept(nowMs) == IF LimiterSweepDue(nowMs) THEN prune(state, nowMs) ELSE state

\* Variant of the test for a new window that ends a window a millisecond early.
LimiterStartsWindowEarly(m, key, nowMs) ==
    ~MapHas(m, key) \/ nowMs - MapGet(m, key).at >= windowMs - 1

LimiterStartsWindow(m, key, nowMs) ==
    ~MapHas(m, key) \/ nowMs - MapGet(m, key).at >= windowMs

LimiterEntry(m, key, nowMs) ==
    IF LimiterStartsWindow(m, key, nowMs)
    THEN [key |-> key, count |-> 1, at |-> nowMs]
    ELSE [key |-> key, count |-> MapGet(m, key).count + 1, at |-> MapGet(m, key).at]

\* Off-by-one variant of the limit test (>= for >).
LimiterResultOffByOne(m, key, nowMs) ==
    IF LimiterStartsWindow(m, key, nowMs)
    THEN FALSE
    ELSE MapGet(m, key).count + 1 >= maxRequests

LimiterResult(m, key, nowMs) ==
    IF LimiterStartsWindow(m, key, nowMs)
    THEN FALSE
    ELSE MapGet(m, key).count + 1 > maxRequests

LimiterTouched(m, key, nowMs) == touch(m, key, LimiterEntry(m, key, nowMs))

LimiterNext(m, key, nowMs) ==
    pruneMapToMaxSize(LimiterTouched(m, key, nowMs), maxTrackedKeys)

\* No window: a key that was never called, or whose window is out of the claim's scope.
NoWin == [start |-> 0, calls |-> 0]

\* Results are numbers: increment's count, and 1 / 0 for isRateLimited's true / false.
NoCall == [op |-> "none", key |-> "", result |-> 0, evicted |-> 0]

\* Counts the model follows a window up to (the calls past maxRequests are all limited).
MaxCount == maxRequests + 2

MonoAfter(nowMs) ==
    IF observe \in {"counts", "order"} THEN mono
    ELSE IF mono >= 0 /\ nowMs >= mono THEN nowMs ELSE -1

\* The key whose windows are followed (the keys are interchangeable).
WatchedKey == KeyNames[1]

\* The window the call sequence defines for the called key: the first call, or
\* the first call at least windowMs after the window's start, starts a window;
\* every other call is one more call of the current window.
WinAfterCall(w, nowMs) ==
    IF w = NoWin \/ nowMs - w.start >= windowMs
    THEN [start |-> nowMs, calls |-> 1]
    ELSE [start |-> w.start, calls |-> w.calls + 1]

\* No sweep yet.
NoSweep == [at |-> -1, cleared |-> FALSE, before |-> -1]

\* The guard's record of sweeps after a call at nowMs: when it swept last, whether
\* clear() was called since, and when the guard swept before that (-1: never, or
\* not since a clear()).
SweepAfterCall(due, nowMs) ==
    IF due
    THEN [at |-> nowMs, cleared |-> FALSE,
          before |-> IF sweep.cleared THEN -1 ELSE sweep.at]
    ELSE sweep

SweepAfterClear == IF sweep.at >= 0 THEN [sweep EXCEPT !.cleared = TRUE] ELSE sweep

\* The order of latest calls after a call on key.
RecencyAfterCall(key) == Append(SelectSeq(recency, LAMBDA k : k # key), key)

\* `!key` of a string: true of the empty string only.
\* Variant of the test that takes no key for empty.
FalsyNever(key) == FALSE

Falsy(key) == key = ""

\* The reference limiter: for every key a count (0: no window yet) and the start
\* of its window; the keys used so far; the result of its latest call.
NoRef ==
    [entries |-> [k \in NonEmptyKeys |-> [count |-> 0, windowStart |-> 0]],
     used |-> {},
     result |-> 0]

RefStartsWindow(e, nowMs) == e.count = 0 \/ nowMs - e.windowStart >= windowMs

\* The reference is no longer followed (result -1).
Unfollowed == [NoRef EXCEPT !.result = -1]

\* The reference after the same call.  It is followed while the timestamps never
\* decreased and at most maxTrackedKeys distinct keys were used.
RefAfterCall(r, key, nowMs, followed) ==
    IF r = Unfollowed \/ ~followed \/ Cardinality(r.used \cup {key}) > maxTrackedKeys
    THEN Unfollowed
    ELSE [entries |-> [r.entries EXCEPT ![key] =
                        IF RefStartsWindow(@, nowMs)
                        THEN [count |-> 1, windowStart |-> nowMs]
                        ELSE [count |-> @.count + 1, windowStart |-> @.windowStart]],
          used |-> r.used \cup {key},
          result |-> IF ~RefStartsWindow(r.entries[key], nowMs)
                        /\ r.entries[key].count + 1 > maxRequests
                     THEN 1 ELSE 0]

\* WatchedKey was not reported limited, or its limit has run out.
NoLimit == [start |-> -1, at |-> 0, others |-> FALSE]

\* After a call on WatchedKey: the start of the window it was reported limited
\* in, and whether other keys were called since it was first reported limited
\* in that window.
LimitedAfterCall(result, entry, nowMs) ==
    IF result
    THEN [start |-> entry.at, at |-> nowMs,
          others |-> limited.start = entry.at /\ limited.others]
    ELSE [start |-> -1, at |-> nowMs, others |-> FALSE]

\* ... and after a call on another key.
LimitedAfterOtherCall ==
    IF limited.start >= 0 THEN [limited EXCEPT !.others = TRUE] ELSE limited

InWindowCalls(key) == IF MapHas(state, key) THEN MapGet(state, key).count ELSE 0

isRateLimited(key, nowMs) ==
    /\ guard = "limiter"
    /\ IF Falsy(key)
       THEN /\ lastCall' = [op |-> "isRateLimited", key |-> key, result |-> 0,
                            evicted |-> 0]
            /\ ref' = IF observe # "reference" \/ ref = Unfollowed THEN ref
                       ELSE [ref EXCEPT !.result = 0]
            /\ UNCHANGED <<state, lastPruneMs, win, mono, sweep, recency, limited>>
       ELSE LET swept == LimiterSwept(nowMs)
                touched == LimiterTouched(swept, key, nowMs)
                next == LimiterNext(swept, key, nowMs)
                evicted == MapKeys(touched) \ MapKeys(next)
            IN  /\ InWindowCalls(key) < MaxCount
                /\ key = WatchedKey => win.calls < MaxCount
                /\ state' = next
                /\ lastPruneMs' = IF LimiterSweepDue(nowMs) THEN nowMs ELSE lastPruneMs
                /\ lastCall' = [op |-> "isRateLimited", key |-> key,
                                result |-> IF LimiterResult(swept, key, nowMs)
                                           THEN 1 ELSE 0,
                                evicted |-> Cardinality(evicted)]
                /\ win' = IF observe # "windows" THEN win
                           ELSE IF key = WatchedKey THEN WinAfterCall(win, nowMs)
                           ELSE IF WatchedKey \in evicted THEN NoWin
                           ELSE win
                /\ mono' = MonoAfter(nowMs)
                /\ sweep' = IF observe # "sweeps" THEN sweep
                             ELSE SweepAfterCall(LimiterSweepDue(nowMs), nowMs)
                /\ recency' = IF observe # "order" THEN recency
                               ELSE RecencyAfterCall(key)
                /\ ref' = IF observe # "reference" \/ key \notin NonEmptyKeys THEN ref
                           ELSE RefAfterCall(ref, key, nowMs, MonoAfter(nowMs) >= 0)
                /\ limited' = IF observe # "limits" THEN limited
                               ELSE IF key # WatchedKey THEN LimitedAfterOtherCall
                               ELSE LimitedAfterCall(LimiterResult(swept, key, nowMs),
                                                     MapGet(next, key), nowMs)
    /\ UNCHANGED <<guard, counters, ctrLastPruneMs, ttlMs, intervalMs, observe, run>>

LimiterClear ==
    /\ guard = "limiter"
    /\ state' = <<>>
    /\ lastPruneMs' = 0
    /\ lastCall' = [NoCall EXCEPT !.op = "clear"]
    /\ win' = NoWin
    /\ sweep' = SweepAfterClear
    /\ recency' = <<>>
    /\ ref' = [ref EXCEPT !.entries = NoRef.entries]
    /\ limited' = NoLimit
    /\ UNCHANGED <<guard, counters, ctrLastPruneMs, ttlMs, mono, intervalMs, observe, run>>

(***************************************************************************)
(* Bounded counter.                                                        *)
(***************************************************************************)
\* Variant of isExpired that forgets the test for a configured TTL.
isExpiredWithoutTtl(entry, nowMs) == nowMs - entry.at >= ttlMs

isExpired(entry, nowMs) == ttlMs > 0 /\ nowMs - entry.at >= ttlMs

\* Variant of the counter's sweep that removes nothing.
CounterPruneNothing(m, nowMs) == m

CounterPrune(m, nowMs) ==
    IF ttlMs > 0 THEN SelectSeq(m, LAMBDA e : ~isExpired(e, nowMs)) ELSE m

CounterSweepDue(nowMs) == nowMs - ctrLastPruneMs >= intervalMs

CounterSwept(nowMs) ==
    IF CounterSweepDue(nowMs) THEN CounterPrune(counters, nowMs) ELSE counters

\* Variant of increment that never resets an idle key's count.
CounterBaseIgnoringTtl(m, key, nowMs) ==
    IF MapHas(m, key) THEN MapGet(m, key).count ELSE 0

CounterBase(m, key, nowMs) ==
    IF MapHas(m, key) /\ ~isExpired(MapGet(m, key), nowMs)
    THEN MapGet(m, key).count
    ELSE 0

CounterNextCount(m, key, nowMs) == CounterBase(m, key, nowMs) + 1

CounterTouched(m, key, nowMs) ==
    touch(m, key, [key |-> key, count |-> CounterNextCount(m, key, nowMs), at |-> nowMs])

\* Variant of increment that forgets the capacity bound.
CounterNextUnbounded(m, key, nowMs) == CounterTouched(m, key, nowMs)

CounterNext(m, key, nowMs) ==
    pruneMapToMaxSize(CounterTouched(m, key, nowMs), maxTrackedKeys)

\* No run: the watched key was not incremented yet, or was evicted by capacity or
\* cleared since.
NoRun == [calls |-> 0, last |-> 0, stale |-> FALSE, idle |-> FALSE]

\* The key's latest update is ttlMs or more before nowMs (a TTL being configured).
IdleAt(r, nowMs) == ttlMs > 0 /\ r.calls # 0 /\ nowMs - r.last >= ttlMs

\* The count the call sequence defines for the watched key after one more call on
\* it: 1 for the first call and for a call that finds the key idle, one more than
\* before otherwise; idle tells whether a call of the run came TtlMs or more after
\* the call before it.  Where the timestamps went back after another key's call had
\* found the key idle, the sequence defines no count (calls = -1) until the key
\* is found idle, evicted or cleared.
RunAfterCall(r, nowMs) ==
    IF r.calls = 0 \/ IdleAt(r, nowMs)
    THEN [calls |-> 1, last |-> nowMs, stale |-> FALSE, idle |-> r.calls # 0]
    ELSE [calls |-> IF r.stale \/ r.calls = -1 THEN -1 ELSE r.calls + 1,
          last |-> nowMs,
          stale |-> FALSE,
          idle |-> r.idle \/ nowMs - r.last >= TtlMs]

\* ... and after a call on another key, which may find the watched key idle.
RunAfterOtherCall(r, nowMs) ==
    IF IdleAt(r, nowMs) THEN [r EXCEPT !.stale = TRUE] ELSE r

increment(key, nowMs) ==
    /\ guard = "counter"
    /\ IF Falsy(key)
       THEN /\ lastCall' = [op |-> "increment", key |-> key, result |-> 0,
                            evicted |-> 0]
            /\ UNCHANGED <<counters, ctrLastPruneMs, mono, run, sweep, recency>>
       ELSE LET swept == CounterSwept(nowMs)
                touched == CounterTouched(swept, key, nowMs)
                next == CounterNext(swept, key, nowMs)
                evicted == MapKeys(touched) \ MapKeys(next)
            IN  /\ CounterBase(swept, key, nowMs) < MaxCount
                /\ counters' = next
                /\ ctrLastPruneMs' = IF CounterSweepDue(nowMs) THEN nowMs
                                     ELSE ctrLastPruneMs
                /\ lastCall' = [op |-> "increment", key |-> key,
                                result |-> CounterNextCount(swept, key, nowMs),
                                evicted |-> Len(CounterTouched(swept, key, nowMs))
                                            - Len(next)]
                /\ mono' = MonoAfter(nowMs)
                /\ run' = IF observe # "counts" THEN run
                           ELSE IF key = WatchedKey THEN RunAfterCall(run, nowMs)
                           ELSE IF WatchedKey \in evicted THEN NoRun
                           ELSE RunAfterOtherCall(run, nowMs)
                /\ sweep' = IF observe # "sweeps" THEN sweep
                             ELSE SweepAfterCall(CounterSweepDue(nowMs), nowMs)
                /\ recency' = IF observe # "order" THEN recency
                               ELSE RecencyAfterCall(key)
    /\ UNCHANGED <<guard, state, lastPruneMs, win, ttlMs, intervalMs, observe, ref,
                   limited>>

CounterClear ==
    /\ guard = "counter"
    /\ counters' = <<>>
    /\ ctrLastPruneMs' = 0
    /\ lastCall' = [NoCall EXCEPT !.op = "clear"]
    /\ run' = NoRun
    /\ sweep' = SweepAfterClear
    /\ recency' = <<>>
    /\ UNCHANGED <<guard, state, lastPruneMs, win, ttlMs, mono, intervalMs, observe,
                   ref, limited>>

\* size() of the guard under test.
size == IF guard = "limiter" THEN Len(state) ELSE Len(counters)

(***************************************************************************)
(* JSON values and strings.  A string is the sequence of its characters    *)
(* (a word that is never split counts as one character); SP is a space.    *)
(***************************************************************************)
SP == " "

Undef == [t |-> "undef", s |-> <<>>, n |-> 0]
Null == [t |-> "null", s |-> <<>>, n |-> 0]
Str(s) == [t |-> "str", s |-> s, n |-> 0]
Num(n) == [t |-> "num", s |-> <<>>, n |-> n]
\* An array, by its length.
Arr(n) == [t |-> "arr", s |-> <<>>, n |-> n]

RECURSIVE TrimStart(_)
TrimStart(s) == IF s # <<>> /\ Head(s) = SP THEN TrimStart(Tail(s)) ELSE s

RECURSIVE TrimEnd(_)
TrimEnd(s) ==
    IF s # <<>> /\ s[Len(s)] = SP THEN TrimEnd(SubSeq(s, 1, Len(s) - 1)) ELSE s

\* String.prototype.trim
Trim(s) == TrimEnd(TrimStart(s))

\* String(n) of a number
NumStr(n) == <<ToString(n)>>

\* shared.js asString: the string itself, undefined for any other value.
asString(v) == IF v.t = "str" THEN v ELSE Undef

\* shared.js asTrimmedString: the trimmed string, "" for any other value.
asTrimmedString(v) == IF v.t = "str" THEN Trim(v.s) ELSE <<>>

\* shared.js asOptionalString: the trimmed string when non-empty, else undefined.
asOptionalString(v) ==
    IF asTrimmedString(v) # <<>> THEN Str(asTrimmedString(v)) ELSE Undef

\* typeof v === "number" && Number.isFinite(v) ? v : undefined
asOptionalFiniteNumber(v) == IF v.t = "num" THEN v ELSE Undef

\* a || b on strings
OrElse(a, b) == IF a # <<>> THEN a ELSE b

\* jsonrpc.js normalizeJsonRpcId: numbers stringify, strings pass through, a
\* missing or null id is no identifier (the empty sequence here).
normalizeJsonRpcId(v) ==
    IF v.t = "num" THEN NumStr(v.n)
    ELSE IF v.t = "str" THEN v.s
    ELSE <<>>

(***************************************************************************)
(* Decoded lines.  A JSON document is a record of the fields the projector *)
(* reads; an absent field is Undef (t = "absent" for the object fields).   *)
(***************************************************************************)
NoContent == [t |-> "absent", type |-> Undef, text |-> Undef]
Content(type, text) == [t |-> "obj", type |-> type, text |-> text]

NoEntries == [t |-> "absent", hasRecord |-> FALSE, content |-> Undef, status |-> Undef]
\* entries: an array whose first record entry has this content and status
Entries(content, status) ==
    [t |-> "arr", hasRecord |-> TRUE, content |-> content, status |-> status]

NoUpdate == [t |-> "absent", sessionUpdate |-> Undef, content |-> NoContent,
             text |-> Undef, title |-> Undef, status |-> Undef, toolCallId |-> Undef,
             kind |-> Undef, used |-> Undef, size |-> Undef,
             availableCommands |-> Undef, currentModeId |-> Undef, modeId |-> Undef,
             mode |-> Undef, id |-> Undef, configOptionId |-> Undef,
             currentValue |-> Undef, value |-> Undef, optionValue |-> Undef,
             configOptions |-> Undef, summary |-> Undef, message |-> Undef,
             entries |-> NoEntries]

\* params.update is a record with this sessionUpdate tag
Update(tag) == [NoUpdate EXCEPT !.t = "obj", !.sessionUpdate = tag]

NoResult == [t |-> "absent", stopReason |-> Undef]
Result(stopReason) == [t |-> "obj", stopReason |-> stopReason]
\* a result that is present but is no record
ScalarResult == [t |-> "other", stopReason |-> Undef]

NoError == [t |-> "absent", message |-> Undef, code |-> Undef]
Error(message, code) == [t |-> "obj", message |-> message, code |-> code]
ScalarError == [t |-> "other", message |-> Undef, code |-> Undef]

\* The JSON document {} ; the other documents are built from it.
EmptyDoc == [rec |-> TRUE, method |-> Undef, id |-> Undef, result |-> NoResult,
             error |-> NoError, update |-> NoUpdate]

\* A JSON value that is no record (a number, a string, an array).
ScalarDoc == [EmptyDoc EXCEPT !.rec = FALSE]

\* shared.js isRecord
isRecord(doc) == doc.rec

hasMethod(doc) == doc.method.t = "str" /\ doc.method.s # <<>>
hasId(doc) == doc.id.t # "undef"
hasOwnResult(doc) == doc.result.t # "absent"
hasOwnError(doc) == doc.error.t # "absent"

\* jsonrpc.js isAcpJsonRpcMessage: a request or notification (method present), or
\* a response (an id with exactly one of result / error).
isAcpJsonRpcMessage(doc) ==
    \/ hasMethod(doc)
    \/ hasId(doc) /\ (hasOwnResult(doc) # hasOwnError(doc))

(***************************************************************************)
(* Runtime events.  NoEvent is the null return.                            *)
(***************************************************************************)
NoEvent == [type |-> "null", text |-> <<>>, stream |-> "", tag |-> Undef,
            toolCallId |-> Undef, status |-> Undef, title |-> Undef,
            used |-> Undef, size |-> Undef, code |-> Undef]

TextDelta(text, stream, tag) ==
    [NoEvent EXCEPT !.type = "text_delta", !.text = text, !.stream = stream, !.tag = tag]

StatusEvent(text, tag) == [NoEvent EXCEPT !.type = "status", !.text = text, !.tag = tag]

DoneEvent(stopReason) == [NoEvent EXCEPT !.type = "done", !.text = stopReason]

ErrorEvent(message, code) ==
    [NoEvent EXCEPT !.type = "error", !.text = message, !.code = code]

(***************************************************************************)
(* Session-update decoding, shared by both projector variants.             *)
(***************************************************************************)
SessionUpdateMethod == <<"session/update">>
SessionPromptMethod == <<"session/prompt">>

\* Variant that never finds a stop reason.
parseNoStopReason(doc) == Undef

parsePromptStopReason(doc) ==
    IF ~hasOwnResult(doc) THEN Undef
    ELSE IF doc.result.t # "obj" THEN Undef
    ELSE IF asString(doc.result.stopReason).t = "str"
            /\ Len(Trim(doc.result.stopReason.s)) > 0
         THEN asString(doc.result.stopReason)
         ELSE Undef

\* `${title} (${status})` when status is non-empty, else title
ToolText(title, status) ==
    IF status # <<>> THEN title \o <<" (">> \o status \o <<")">> ELSE title

\* array length, or 0 when the value is no array
ArrayLength(v) == IF v.t = "arr" THEN v.n ELSE 0

PlanText(update) ==
    LET content == IF update.entries.t = "arr" /\ update.entries.hasRecord
                   THEN asTrimmedString(update.entries.content) ELSE <<>>
        status == IF update.entries.t = "arr" /\ update.entries.hasRecord
                  THEN asTrimmedString(update.entries.status) ELSE <<>>
    IN  IF content = <<>> THEN <<"plan updated">>
        ELSE IF status # <<>> THEN <<"plan: [">> \o status \o <<"] ">> \o content
        ELSE <<"plan: ">> \o content

UsageText(usedV, sizeV) ==
    IF usedV.t = "num" /\ sizeV.t = "num"
    THEN <<"usage updated: ">> \o NumStr(usedV.n) \o <<"/">> \o NumStr(sizeV.n)
    ELSE <<"usage updated">>

\* the update record of a session/update message, NoUpdate when the method is
\* another one or params / params.update is no record
UpdateOf(doc) ==
    IF asTrimmedString(doc.method) # SessionUpdateMethod THEN NoUpdate
    ELSE IF doc.update.t # "obj" THEN NoUpdate
    ELSE doc.update

(***************************************************************************)
(* Ungated projector variant (shouldHandlePromptResponse).                 *)
(***************************************************************************)
UngatedTextChunk(update, stream) ==
    IF update.content.t # "obj" \/ asTrimmedString(update.content.type) # <<"text">>
    THEN NoEvent
    ELSE IF asString(update.content.text).t # "str" \/ update.content.text.s = <<>>
    THEN NoEvent
    ELSE TextDelta(update.content.text.s, stream, Undef)

UngatedToolCall(update) ==
    LET title == OrElse(asTrimmedString(update.title),
                   OrElse(asTrimmedString(update.toolCallId),
                     OrElse(asTrimmedString(update.kind), <<"tool">>)))
    IN  [NoEvent EXCEPT !.type = "tool_call",
                        !.text = ToolText(title, asTrimmedString(update.status))]

UngatedParseSessionUpdateEvent(doc) ==
    LET update == UpdateOf(doc)
        sessionUpdate == asTrimmedString(update.sessionUpdate)
    IN  IF update.t # "obj" THEN NoEvent
        ELSE IF sessionUpdate = <<"agent_message_chunk">>
             THEN UngatedTextChunk(update, "output")
        ELSE IF sessionUpdate = <<"agent_thought_chunk">>
             THEN UngatedTextChunk(update, "thought")
        ELSE IF sessionUpdate \in {<<"tool_call">>, <<"tool_call_update">>}
             THEN UngatedToolCall(update)
        ELSE IF sessionUpdate = <<"plan">>
             THEN StatusEvent(PlanText(update), Undef)
        ELSE IF sessionUpdate = <<"available_commands_update">>
             THEN StatusEvent(<<"available commands updated (">>
                              \o NumStr(ArrayLength(update.availableCommands))
                              \o <<")">>, Undef)
        ELSE IF sessionUpdate = <<"current_mode_update">>
             THEN StatusEvent(IF asTrimmedString(update.currentModeId) # <<>>
                              THEN <<"mode updated: ">>
                                   \o asTrimmedString(update.currentModeId)
                              ELSE <<"mode updated">>, Undef)
        ELSE IF sessionUpdate = <<"config_option_update">>
             THEN StatusEvent(<<"config options updated (">>
                              \o NumStr(ArrayLength(update.configOptions))
                              \o <<")">>, Undef)
        ELSE IF sessionUpdate = <<"session_info_update">>
             THEN StatusEvent(IF asTrimmedString(update.title) # <<>>
                              THEN <<"session info updated: ">>
                                   \o asTrimmedString(update.title)
                              ELSE <<"session info updated">>, Undef)
        ELSE IF sessionUpdate = <<"usage_update">>
             THEN StatusEvent(UsageText(update.used, update.size), Undef)
        ELSE NoEvent

(***************************************************************************)
(* Gating projector variant (consumePromptResponse).                       *)
(***************************************************************************)
\* Variant of resolveTextChunk that passes an empty text on.
resolveTextChunkAllowingEmpty(update, stream, tag) ==
    IF update.content.t = "obj" /\ asString(update.content.text).t = "str"
    THEN TextDelta(update.content.text.s, stream, tag)
    ELSE IF asString(update.text).t = "str"
    THEN TextDelta(update.text.s, stream, tag)
    ELSE NoEvent

resolveTextChunk(update, stream, tag) ==
    IF update.content.t = "obj"
       /\ asTrimmedString(update.content.type) # <<>>
       /\ asTrimmedString(update.content.type) # <<"text">>
    THEN NoEvent
    ELSE IF update.content.t = "obj"
            /\ asString(update.content.text).t = "str"
            /\ Len(update.content.text.s) > 0
    THEN TextDelta(update.content.text.s, stream, tag)
    ELSE IF asString(update.text).t # "str" \/ Len(update.text.s) = 0
    THEN NoEvent
    ELSE TextDelta(update.text.s, stream, tag)

resolveStatusTextForTag(tag, update) ==
    IF tag = <<"available_commands_update">>
    THEN IF ArrayLength(update.availableCommands) > 0
         THEN <<"available commands updated (">>
              \o NumStr(ArrayLength(update.availableCommands)) \o <<")">>
         ELSE <<"available commands updated">>
    ELSE IF tag = <<"current_mode_update">>
    THEN LET mode == OrElse(asTrimmedString(update.currentModeId),
                       OrElse(asTrimmedString(update.modeId),
                              asTrimmedString(update.mode)))
         IN  IF mode # <<>> THEN <<"mode updated: ">> \o mode ELSE <<"mode updated">>
    ELSE IF tag = <<"config_option_update">>
    THEN LET id == OrElse(asTrimmedString(update.id),
                          asTrimmedString(update.configOptionId))
             value == OrElse(asTrimmedString(update.currentValue),
                        OrElse(asTrimmedString(update.value),
                               asTrimmedString(update.optionValue)))
         IN  IF id # <<>> /\ value # <<>>
             THEN <<"config updated: ">> \o id \o <<"=">> \o value
             ELSE IF id # <<>> THEN <<"config updated: ">> \o id
             ELSE <<"config updated">>
    ELSE IF tag = <<"session_info_update">>
    THEN OrElse(asTrimmedString(update.summary),
           OrElse(asTrimmedString(update.message), <<"session updated">>))
    ELSE IF tag = <<"plan">>
    THEN PlanText(update)
    ELSE <<>>

GatedToolCall(update, tag) ==
    LET title == OrElse(asTrimmedString(update.title), <<"tool call">>)
        status == asTrimmedString(update.status)
    IN  [NoEvent EXCEPT !.type = "tool_call",
                        !.text = ToolText(title, status),
                        !.tag = Str(tag),
                        !.toolCallId = asOptionalString(update.toolCallId),
                        !.status = IF status # <<>> THEN Str(status) ELSE Undef,
                        !.title = Str(title)]

GatedParseSessionUpdateEvent(doc) ==
    LET update == UpdateOf(doc)
        tag == asOptionalString(update.sessionUpdate).s
    IN  IF update.t # "obj" \/ tag = <<>> THEN NoEvent
        ELSE IF tag = <<"agent_message_chunk">>
             THEN resolveTextChunk(update, "output", Str(tag))
        ELSE IF tag = <<"agent_thought_chunk">>
             THEN resolveTextChunk(update, "thought", Str(tag))
        ELSE IF tag \in {<<"tool_call">>, <<"tool_call_update">>}
             THEN GatedToolCall(update, tag)
        ELSE IF tag = <<"usage_update">>
             THEN [StatusEvent(UsageText(asOptionalFiniteNumber(update.used),
                                         asOptionalFiniteNumber(update.size)), Str(tag))
                     EXCEPT !.used = asOptionalFiniteNumber(update.used),
                            !.size = asOptionalFiniteNumber(update.size)]
        ELSE IF tag \in {<<"available_commands_update">>, <<"current_mode_update">>,
                         <<"config_option_update">>, <<"session_info_update">>,
                         <<"plan">>}
             THEN IF resolveStatusTextForTag(tag, update) = <<>> THEN NoEvent
                  ELSE StatusEvent(resolveStatusTextForTag(tag, update), Str(tag))
        ELSE NoEvent

(***************************************************************************)
(* ingestLine.  A line is JSON text (json, with the document it decodes    *)
(* to) or other text (its characters); JSON.parse fails on the latter.     *)
(***************************************************************************)
TextLine(chars) == [json |-> FALSE, chars |-> chars, doc |-> EmptyDoc]
JsonLine(doc) == [json |-> TRUE, chars |-> <<>>, doc |-> doc]

\* line.trim() is empty
IsBlank(line) == ~line.json /\ Trim(line.chars) = <<>>

\* JSON.parse(trimmed) throws
IsMalformed(line) == ~line.json /\ Trim(line.chars) # <<>>

\* Variant that reports the malformed line as it came.
MalformedStatusRaw(line) == StatusEvent(line.chars, Undef)

\* { type: "status", text: trimmed }
MalformedStatus(line) == StatusEvent(Trim(line.chars), Undef)

IsPromptRequest(doc) == asTrimmedString(doc.method) = SessionPromptMethod

ErrorEventOf(doc) ==
    ErrorEvent(OrElse(IF doc.error.t = "obj" THEN asTrimmedString(doc.error.message)
                      ELSE <<>>, <<"acpx runtime error">>),
               IF doc.error.t = "obj" /\ doc.error.code.t = "num"
               THEN Str(NumStr(doc.error.code.n))
               ELSE IF doc.error.t = "obj" THEN asOptionalString(doc.error.code)
               ELSE Undef)

\* Variant that forgets the ids awaited so far when a prompt request comes.
IdsAfterPromptOnly(ids, doc) ==
    IF normalizeJsonRpcId(doc.id) # <<>> THEN {normalizeJsonRpcId(doc.id)} ELSE ids

IdsAfterPrompt(ids, doc) ==
    IF normalizeJsonRpcId(doc.id) # <<>> THEN ids \cup {normalizeJsonRpcId(doc.id)}
    ELSE ids

\* Variant that honours a response whatever its id.
consumeAnyResponse(ids, doc) == normalizeJsonRpcId(doc.id) # <<>>

\* Gating variant: the response is honoured iff its id is awaited ...
consumePromptResponse(ids, doc) ==
    normalizeJsonRpcId(doc.id) # <<>> /\ normalizeJsonRpcId(doc.id) \in ids

\* ... and honouring it removes the id.
IdsAfterConsume(ids, doc) ==
    IF consumePromptResponse(ids, doc) THEN ids \ {normalizeJsonRpcId(doc.id)} ELSE ids

\* Variant that passes an update on whether or not a prompt is awaited.
GatedUpdateAlways(ids, event) == event

\* Gating variant: an update is passed on only while a prompt is awaited.
GatedUpdate(ids, event) == IF Cardinality(ids) > 0 THEN event ELSE NoEvent

GatedIngestEvent(ids, line) ==
    IF IsBlank(line) THEN NoEvent
    ELSE IF IsMalformed(line) THEN MalformedStatus(line)
    ELSE IF ~isRecord(line.doc) \/ ~isAcpJsonRpcMessage(line.doc) THEN NoEvent
    ELSE IF IsPromptRequest(line.doc) THEN NoEvent
    ELSE IF GatedParseSessionUpdateEvent(line.doc) # NoEvent
         THEN GatedUpdate(ids, GatedParseSessionUpdateEvent(line.doc))
    ELSE IF hasOwnError(line.doc)
         THEN IF consumePromptResponse(ids, line.doc) THEN ErrorEventOf(line.doc)
              ELSE NoEvent
    ELSE IF parsePromptStopReason(line.doc) = Undef
            \/ ~consumePromptResponse(ids, line.doc)
         THEN NoEvent
    ELSE DoneEvent(parsePromptStopReason(line.doc).s)

GatedIngestIds(ids, line) ==
    IF IsBlank(line) \/ IsMalformed(line) THEN ids
    ELSE IF ~isRecord(line.doc) \/ ~isAcpJsonRpcMessage(line.doc) THEN ids
    ELSE IF IsPromptRequest(line.doc) THEN IdsAfterPrompt(ids, line.doc)
    ELSE IF GatedParseSessionUpdateEvent(line.doc) # NoEvent THEN ids
    ELSE IF hasOwnError(line.doc) THEN IdsAfterConsume(ids, line.doc)
    ELSE IF parsePromptStopReason(line.doc) = Undef THEN ids
    ELSE IdsAfterConsume(ids, line.doc)

\* Ungated variant: the response is honoured iff its id is in the set; the set
\* is only ever added to.
shouldHandlePromptResponse(ids, doc) ==
    normalizeJsonRpcId(doc.id) # <<>> /\ normalizeJsonRpcId(doc.id) \in ids

UngatedIngestEvent(ids, line) ==
    IF IsBlank(line) THEN NoEvent
    ELSE IF IsMalformed(line) THEN MalformedStatus(line)
    ELSE IF ~isRecord(line.doc) \/ ~isAcpJsonRpcMessage(line.doc) THEN NoEvent
    ELSE IF UngatedParseSessionUpdateEvent(line.doc) # NoEvent
         THEN UngatedParseSessionUpdateEvent(line.doc)
    ELSE IF IsPromptRequest(line.doc) THEN NoEvent
    ELSE IF hasOwnError(line.doc)
         THEN IF shouldHandlePromptResponse(ids, line.doc) THEN ErrorEventOf(line.doc)
              ELSE NoEvent
    ELSE IF parsePromptStopReason(line.doc) = Undef
            \/ ~shouldHandlePromptResponse(ids, line.doc)
         THEN NoEvent
    ELSE DoneEvent(parsePromptStopReason(line.doc).s)

UngatedIngestIds(ids, line) ==
    IF IsBlank(line) \/ IsMalformed(line) THEN ids
    ELSE IF ~isRecord(line.doc) \/ ~isAcpJsonRpcMessage(line.doc) THEN ids
    ELSE IF UngatedParseSessionUpdateEvent(line.doc) # NoEvent THEN ids
    ELSE IF IsPromptRequest(line.doc) THEN IdsAfterPrompt(ids, line.doc)
    ELSE ids

(***************************************************************************)
(* The lines fed to the projectors.                                        *)
(***************************************************************************)
Text(word) == Str(<<word>>)

RequestIds == {Num(1), Num(3), Text("3")}

PromptDocs ==
    {[EmptyDoc EXCEPT !.method = Text("session/prompt"), !.id = id] :
        id \in RequestIds \cup {Undef}}
    \cup {[EmptyDoc EXCEPT !.method = Str(<<SP, "session/prompt">>), !.id = Num(3)]}

ResponsePayloads ==
    {[result |-> Result(Text("end_turn")), error |-> NoError],
     [result |-> Result(Str(<<SP>>)), error |-> NoError],
     [result |-> Result(Undef), error |-> NoError],
     [result |-> ScalarResult, error |-> NoError],
     [result |-> NoResult, error |-> Error(Text("adapter failed"), Num(-32000))],
     [result |-> NoResult, error |-> Error(Undef, Text("E1"))],
     [result |-> NoResult, error |-> ScalarError]}

ResponseDocs ==
    {[EmptyDoc EXCEPT !.id = id, !.result = p.result, !.error = p.error] :
        id \in RequestIds \cup {Null}, p \in ResponsePayloads}

OtherDocs ==
    {EmptyDoc, ScalarDoc,
     \* a result without an id; a result together with an error
     [EmptyDoc EXCEPT !.result = Result(Text("end_turn"))],
     [EmptyDoc EXCEPT !.id = Num(3), !.result = Result(Text("end_turn")),
                      !.error = Error(Text("adapter failed"), Undef)],
     \* another request, another notification, a request that carries an error
     [EmptyDoc EXCEPT !.method = Text("fs/read"), !.id = Num(3)],
     [EmptyDoc EXCEPT !.method = Text("fs/read")],
     [EmptyDoc EXCEPT !.method = Text("fs/read"), !.id = Num(3),
                      !.error = Error(Text("adapter failed"), Undef)]}

ChunkContents ==
    {Content(Text("text"), Str(<<SP, SP, "indented">>)),
     Content(Text("text"), Str(<<SP>>)),
     Content(Text("text"), Str(<<>>)),
     Content(Text("text"), Num(1)),
     Content(Undef, Text("hi")),
     Content(Text("image"), Text("hi"))}

Updates ==
    {[Update(Text("agent_message_chunk")) EXCEPT !.content = c] : c \in ChunkContents}
    \cup
    {[Update(Text("agent_message_chunk")) EXCEPT !.text = Text("fallback")],
     [Update(Text("agent_message_chunk")) EXCEPT !.text = Str(<<>>)],
     [Update(Text("agent_message_chunk"))
        EXCEPT !.content = Content(Text("text"), Str(<<>>)), !.text = Text("fallback")],
     [Update(Str(<<SP, "agent_message_chunk">>))
        EXCEPT !.content = Content(Text("text"), Text("hi"))],
     [Update(Text("agent_thought_chunk"))
        EXCEPT !.content = Content(Text("text"), Text("thinking"))],
     [Update(Text("agent_thought_chunk")) EXCEPT !.content = Content(Undef, Str(<<>>))],
     [Update(Text("tool_call")) EXCEPT !.toolCallId = Text("call-1"),
                                       !.title = Text("exec"),
                                       !.status = Text("in_progress")],
     [Update(Text("tool_call")) EXCEPT !.toolCallId = Text("call-1")],
     [Update(Text("tool_call")) EXCEPT !.kind = Text("read"), !.title = Str(<<SP>>)],
     [Update(Text("tool_call_update")) EXCEPT !.toolCallId = Text("call-1"),
                                              !.title = Text("exec"),
                                              !.status = Text("completed")],
     Update(Text("tool_call_update")),
     [Update(Text("usage_update")) EXCEPT !.used = Num(5), !.size = Num(9)],
     [Update(Text("usage_update")) EXCEPT !.used = Num(5)],
     [Update(Text("plan")) EXCEPT !.entries = Entries(Text("step"), Text("pending"))],
     [Update(Text("plan")) EXCEPT !.entries = Entries(Text("step"), Undef)],
     [Update(Text("plan")) EXCEPT !.entries = Entries(Str(<<SP>>), Text("pending"))],
     Update(Text("plan")),
     [Update(Text("available_commands_update")) EXCEPT !.availableCommands = Arr(2)],
     Update(Text("available_commands_update")),
     [Update(Text("current_mode_update")) EXCEPT !.currentModeId = Text("code")],
     [Update(Text("current_mode_update")) EXCEPT !.modeId = Text("ask")],
     Update(Text("current_mode_update")),
     [Update(Text("config_option_update")) EXCEPT !.id = Text("model"),
                                                  !.currentValue = Text("fast"),
                                                  !.configOptions = Arr(1)],
     [Update(Text("config_option_update")) EXCEPT !.configOptionId = Text("model")],
     Update(Text("config_option_update")),
     [Update(Text("session_info_update")) EXCEPT !.summary = Text("summary")],
     [Update(Text("session_info_update")) EXCEPT !.title = Text("title")],
     Update(Text("session_info_update")),
     Update(Text("something_else")),
     Update(Undef)}

UpdateDocs ==
    {[EmptyDoc EXCEPT !.method = Text("session/update"), !.update = u] : u \in Updates}
    \cup {[EmptyDoc EXCEPT !.method = Text("session/update")]}

Docs == PromptDocs \cup ResponseDocs \cup OtherDocs \cup UpdateDocs

Lines ==
    {JsonLine(doc) : doc \in Docs}
    \cup {TextLine(chars) : chars \in {<<>>, <<SP>>, <<"x">>, <<SP, "x", SP>>,
                                       <<"x", SP, "{">>}}

(***************************************************************************)
(* What the claims observe of a run.                                       *)
(***************************************************************************)
LineId(line) == normalizeJsonRpcId(line.doc.id)

\* a protocol message that is a session/prompt request with an id
IsPromptLine(line) ==
    /\ line.json /\ isRecord(line.doc) /\ isAcpJsonRpcMessage(line.doc)
    /\ IsPromptRequest(line.doc)
    /\ LineId(line) # <<>>

\* a protocol message carrying a result or an error for an id (and which is
\* neither a session/prompt request nor a session/update notification)
IsResponseLine(line) ==
    /\ line.json /\ isRecord(line.doc) /\ isAcpJsonRpcMessage(line.doc)
    /\ ~IsPromptRequest(line.doc)
    /\ asTrimmedString(line.doc.method) # SessionUpdateMethod
    /\ (hasOwnResult(line.doc) \/ hasOwnError(line.doc))
    /\ LineId(line) # <<>>

IsTerminal(event) == event.type \in {"done", "error"}

AwaitingAfter(line) ==
    IF IsPromptLine(line) THEN awaiting \cup {LineId(line)}
    ELSE IF IsResponseLine(line) THEN awaiting \ {LineId(line)}
    ELSE awaiting

HonoredAfter(honored, line, event) ==
    IF IsPromptLine(line) THEN honored \ {LineId(line)}
    ELSE IF IsResponseLine(line) /\ IsTerminal(event) THEN honored \cup {LineId(line)}
    ELSE honored

\* One line is fed to both projector variants.
ingestLine(line) ==
    /\ promptRequestIds' = GatedIngestIds(promptRequestIds, line)
    /\ gatedOut' = GatedIngestEvent(promptRequestIds, line)
    /\ ungatedRequestIds' = UngatedIngestIds(ungatedRequestIds, line)
    /\ ungatedOut' = UngatedIngestEvent(ungatedRequestIds, line)
    /\ lastLine' = line
    /\ tick' = 1 - tick
    /\ awaiting' = AwaitingAfter(line)
    /\ honoredG' = HonoredAfter(honoredG, line, gatedOut')
    /\ honoredU' = HonoredAfter(honoredU, line, ungatedOut')

(***************************************************************************)
(* Reply projector (createAcpReplyProjector): settings.                    *)
(***************************************************************************)
DEFAULT_ACP_META_MODE == "minimal"
DEFAULT_ACP_SHOW_USAGE == FALSE
DEFAULT_ACP_DELIVERY_MODE == "live"
DEFAULT_ACP_MAX_TURN_CHARS == 24000
DEFAULT_ACP_MAX_TOOL_SUMMARY_CHARS == 320
DEFAULT_ACP_MAX_STATUS_CHARS == 320
DEFAULT_ACP_MAX_META_EVENTS_PER_TURN == 64

\* tags with a built-in visibility, and those of them that are visible
ACP_TAG_VISIBILITY_DEFAULTS ==
    {<<"agent_message_chunk">>, <<"tool_call">>, <<"tool_call_update">>,
     <<"usage_update">>, <<"available_commands_update">>, <<"current_mode_update">>,
     <<"config_option_update">>, <<"session_info_update">>, <<"plan">>,
     <<"agent_thought_chunk">>}

DefaultVisibleTags == {<<"agent_message_chunk">>, <<"tool_call">>, <<"tool_call_update">>}

TERMINAL_TOOL_STATUSES ==
    {<<"completed">>, <<"failed">>, <<"cancelled">>, <<"done">>, <<"error">>}

\* Numbers that are no integers: Quarters(n) is the number n / 4, and
\* NonFinite(n) is NaN (0), Infinity (1) or -Infinity (-1).
Quarters(n) == [t |-> "quarters", s |-> <<>>, n |-> n]
NonFinite(n) == [t |-> "nonfinite", s |-> <<>>, n |-> n]

\* typeof value === "number" && Number.isFinite(value)
isFiniteNumber(value) == value.t \in {"num", "quarters"}

\* Variant of Math.round that rounds down.
MathFloor(value) == IF value.t = "num" THEN value.n ELSE value.n \div 4

\* Math.round: the nearest integer, a half going up.
MathRound(value) == IF value.t = "num" THEN value.n ELSE (value.n + 2) \div 4

\* Variant of clampPositiveInteger that tests the type only.
clampAnyNumber(value, fallback, min, max) ==
    IF value.t \notin {"num", "quarters", "nonfinite"} THEN fallback
    ELSE IF value.t = "nonfinite" THEN (IF value.n > 0 THEN max ELSE min)
    ELSE IF MathRound(value) < min THEN min
    ELSE IF MathRound(value) > max THEN max
    ELSE MathRound(value)

clampPositiveInteger(value, fallback, min, max) ==
    IF ~isFiniteNumber(value) THEN fallback
    ELSE IF MathRound(value) < min THEN min
    ELSE IF MathRound(value) > max THEN max
    ELSE MathRound(value)

clampBoolean(value, fallback) == IF value.t = "bool" THEN value.n = 1 ELSE fallback

resolveAcpDeliveryMode(value) ==
    IF value = Str(<<"final_only">>) THEN "final_only" ELSE DEFAULT_ACP_DELIVERY_MODE

resolveAcpMetaMode(value) ==
    IF value \in {Str(<<"off">>), Str(<<"minimal">>), Str(<<"verbose">>)}
    THEN value.s[1]
    ELSE DEFAULT_ACP_META_MODE

\* cfg.acp.stream, as the record of its fields; tagVisibility is given by the
\* tags overridden to true and those overridden to false
Bool(b) == [t |-> "bool", s |-> <<>>, n |-> IF b THEN 1 ELSE 0]

NoOverrides == [shown |-> {}, hidden |-> {}]

resolveAcpProjectionSettings(stream) ==
    [deliveryMode |-> resolveAcpDeliveryMode(stream.deliveryMode),
     metaMode |-> resolveAcpMetaMode(stream.metaMode),
     showUsage |-> clampBoolean(stream.showUsage, DEFAULT_ACP_SHOW_USAGE),
     maxTurnChars |->
        clampPositiveInteger(stream.maxTurnChars, DEFAULT_ACP_MAX_TURN_CHARS, 1, 500000),
     maxToolSummaryChars |->
        clampPositiveInteger(stream.maxToolSummaryChars,
                             DEFAULT_ACP_MAX_TOOL_SUMMARY_CHARS, 64, 8000),
     maxStatusChars |->
        clampPositiveInteger(stream.maxStatusChars, DEFAULT_ACP_MAX_STATUS_CHARS, 64, 8000),
     maxMetaEventsPerTurn |->
        clampPositiveInteger(stream.maxMetaEventsPerTurn,
                             DEFAULT_ACP_MAX_META_EVENTS_PER_TURN, 1, 2000),
     tagVisibility |-> stream.tagVisibility]

truncateText(input, maxChars) ==
    IF Len(input) <= maxChars THEN input
    ELSE IF maxChars <= 1 THEN SubSeq(input, 1, maxChars)
    ELSE SubSeq(input, 1, maxChars - 1) \o <<"...">>

\* Variant of hashText that gives every text the same hash.
hashTextConstant(text) == <<>>

hashText(text) == Trim(text)

\* String.prototype.toLowerCase, on the words of the model
LowerCase(s) == [i \in 1..Len(s) |-> IF s[i] = "FAILED" THEN "failed" ELSE s[i]]

\* undefined is Undef; otherwise the trimmed, lower-cased status
normalizeToolStatus(status) ==
    IF status.t # "str" \/ status.s = <<>> THEN Undef
    ELSE IF LowerCase(Trim(status.s)) = <<>> THEN Undef
    ELSE Str(LowerCase(Trim(status.s)))

isTagVisible(tag) ==
    IF tag.t # "str" \/ tag.s = <<>> THEN TRUE
    ELSE IF tag.s \in settings.tagVisibility.shown THEN TRUE
    ELSE IF tag.s \in settings.tagVisibility.hidden THEN FALSE
    ELSE IF tag.s \in ACP_TAG_VISIBILITY_DEFAULTS THEN tag.s \in DefaultVisibleTags
    ELSE TRUE

\* infra/system-message.js prefixSystemMessage: the text behind a system mark
prefixSystemMessage(text) == <<"System: ">> \o text

\* agents/tool-display.js formatToolSummary(resolveToolDisplay({name, meta}))
formatToolSummary(meta) == <<"tool_call: ">> \o meta

OptTrim(v) == IF v.t = "str" THEN Trim(v.s) ELSE <<>>

renderToolSummaryText(event) ==
    LET title == OptTrim(event.title)
        status == OptTrim(event.status)
        fallback == Trim(event.text)
        statusPart == IF status # <<>> THEN <<"status=">> \o status ELSE <<>>
        joined == IF title # <<>> /\ status # <<>> THEN title \o <<" · ">> \o statusPart
                  ELSE IF title # <<>> THEN title
                  ELSE IF status # <<>> THEN statusPart
                  ELSE fallback
    IN  formatToolSummary(OrElse(joined, <<"tool call">>))

(***************************************************************************)
(* Reply projector: the closures of createAcpReplyProjector, as functions  *)
(* from the projector's state to its state after the call.  st.out is the  *)
(* list of deliver(...) calls made so far by the running call.             *)
(***************************************************************************)
BlockDelivery(text) ==
    [kind |-> "block", text |-> text, tag |-> Undef, toolCallId |-> Undef,
     toolStatus |-> Undef, allowEdit |-> FALSE]

ToolDelivery(text, tag, toolCallId, toolStatus, allowEdit) ==
    [kind |-> "tool", text |-> text, tag |-> tag, toolCallId |-> toolCallId,
     toolStatus |-> toolStatus, allowEdit |-> allowEdit]

Min(a, b) == IF a < b THEN a ELSE b

\* Variant of resetTurnState that keeps the status dedup hash.
resetTurnStateKeepingStatus(st) ==
    [st EXCEPT !.emittedTurnChars = 0,
               !.emittedMetaEvents = 0,
               !.truncationNoticeEmitted = FALSE,
               !.lastToolHash = Undef,
               !.lastUsageTuple = Undef,
               !.toolLifecycleById = <<>>]

\* Variant of resetTurnState that keeps the turn's character budget.
resetTurnStateKeepingBudget(st) ==
    [st EXCEPT !.emittedMetaEvents = 0,
               !.truncationNoticeEmitted = FALSE,
               !.lastStatusHash = Undef,
               !.lastToolHash = Undef,
               !.lastUsageTuple = Undef,
               !.toolLifecycleById = <<>>]

resetTurnState(st) ==
    [st EXCEPT !.emittedTurnChars = 0,
               !.emittedMetaEvents = 0,
               !.truncationNoticeEmitted = FALSE,
               !.lastStatusHash = Undef,
               !.lastToolHash = Undef,
               !.lastUsageTuple = Undef,
               !.toolLifecycleById = <<>>]

\* EmbeddedBlockChunker.drain: a forced drain emits the whole buffer; a drain
\* that is not forced emits the first `ready` characters the chunker holds
\* ready (how many depends on its thresholds).  Every chunk is enqueued.
chunkerDrain(st, force, ready) ==
    LET n == IF force THEN Len(st.chunkerBuffer) ELSE Min(ready, Len(st.chunkerBuffer))
    IN  [st EXCEPT !.pipelineQueue = @ \o SubSeq(st.chunkerBuffer, 1, n),
                   !.chunkerBuffer = SubSeq(@, n + 1, Len(@))]

\* Variant of drainChunker that drains in every delivery mode.
drainChunkerAnyMode(st, force, ready) == chunkerDrain(st, force, ready)

drainChunker(st, force, ready) ==
    IF settings.deliveryMode = "final_only" /\ ~force THEN st
    ELSE chunkerDrain(st, force, ready)

\* blockReplyPipeline.flush: what is queued is delivered as one block
pipelineFlush(st) ==
    IF st.pipelineQueue = <<>> THEN st
    ELSE [st EXCEPT !.out = Append(@, BlockDelivery(st.pipelineQueue)),
                    !.pipelineQueue = <<>>]

\* Variant of flush that never forces the drain.
flushUnforced(st, force, ready) == pipelineFlush(drainChunker(st, FALSE, ready))

flush(st, force, ready) == pipelineFlush(drainChunker(st, force, ready))

\* Variant of consumeMetaQuota's return value that never refuses.
MetaQuotaAlwaysGranted(st, force) == TRUE

\* consumeMetaQuota: its return value, and the state it leaves
MetaQuotaGranted(st, force) ==
    force \/ st.emittedMetaEvents < settings.maxMetaEventsPerTurn

\* Variant of consumeMetaQuota that counts forced deliveries too.
consumeMetaQuotaCountingForced(st, force) ==
    [st EXCEPT !.emittedMetaEvents = @ + 1]

consumeMetaQuota(st, force) ==
    IF force \/ st.emittedMetaEvents >= settings.maxMetaEventsPerTurn THEN st
    ELSE [st EXCEPT !.emittedMetaEvents = @ + 1]

\* Variant of emitSystemStatus that does not look at shouldSendToolSummaries.
emitSystemStatusUngated(st, text, tag, force, dedupe) ==
    LET bounded == truncateText(Trim(text), settings.maxStatusChars)
        formatted == prefixSystemMessage(bounded)
        hash == hashText(formatted)
        granted == consumeMetaQuota(st, force)
        flushed == IF settings.deliveryMode = "live" THEN flush(granted, TRUE, 0)
                   ELSE granted
    IN  IF settings.metaMode = "off" /\ ~force THEN st
        ELSE IF bounded = <<>> THEN st
        ELSE IF dedupe /\ st.lastStatusHash = Str(hash) THEN st
        ELSE IF ~MetaQuotaGranted(st, force) THEN st
        ELSE [flushed EXCEPT
                !.out = Append(@, ToolDelivery(formatted, tag, Undef, Undef, FALSE)),
                !.lastStatusHash = Str(hash)]

emitSystemStatus(st, text, tag, force, dedupe) ==
    LET bounded == truncateText(Trim(text), settings.maxStatusChars)
        formatted == prefixSystemMessage(bounded)
        hash == hashText(formatted)
        granted == consumeMetaQuota(st, force)
        flushed == IF settings.deliveryMode = "live" THEN flush(granted, TRUE, 0)
                   ELSE granted
    IN  IF ~shouldSendToolSummaries THEN st
        ELSE IF settings.metaMode = "off" /\ ~force THEN st
        ELSE IF bounded = <<>> THEN st
        ELSE IF dedupe /\ st.lastStatusHash = Str(hash) THEN st
        ELSE IF ~MetaQuotaGranted(st, force) THEN st
        ELSE [flushed EXCEPT
                !.out = Append(@, ToolDelivery(formatted, tag, Undef, Undef, FALSE)),
                !.lastStatusHash = Str(hash)]

NoLifecycle(id) ==
    [key |-> id, started |-> FALSE, terminal |-> FALSE, lastRenderedHash |-> Undef]

\* Variant of the minimal-mode guards that looks at the rendered text only.
LifecycleSuppressedByTextOnly(lifecycle, isTerminal, isStart, hash) ==
    lifecycle.lastRenderedHash = Str(hash)

\* the three guards of minimal mode for an event with a tool-call id
LifecycleSuppressed(lifecycle, isTerminal, isStart, hash) ==
    \/ isTerminal /\ lifecycle.terminal
    \/ isStart /\ lifecycle.started
    \/ lifecycle.lastRenderedHash = Str(hash)

emitToolSummary(st, event) ==
    LET toolSummary == truncateText(renderToolSummaryText(event),
                                    settings.maxToolSummaryChars)
        hash == hashText(toolSummary)
        toolCallId == OptTrim(event.toolCallId)
        status == normalizeToolStatus(event.status)
        isTerminal == status.t = "str" /\ status.s \in TERMINAL_TOOL_STATUSES
        isStart == status = Str(<<"in_progress">>) \/ event.tag = Str(<<"tool_call">>)
        state0 == IF MapHas(st.toolLifecycleById, toolCallId)
                  THEN MapGet(st.toolLifecycleById, toolCallId)
                  ELSE NoLifecycle(toolCallId)
        state1 == [state0 EXCEPT !.started = @ \/ isStart,
                                 !.terminal = @ \/ isTerminal,
                                 !.lastRenderedHash = Str(hash)]
        tracked == IF settings.metaMode = "minimal" /\ toolCallId # <<>>
                   THEN [st EXCEPT !.toolLifecycleById = MapSet(@, toolCallId, state1)]
                   ELSE st
        granted == consumeMetaQuota(tracked, FALSE)
        flushed == IF settings.deliveryMode = "live" THEN flush(granted, TRUE, 0)
                   ELSE granted
        delivery == ToolDelivery(toolSummary, event.tag,
                        IF toolCallId # <<>> THEN Str(toolCallId) ELSE Undef,
                        status,
                        toolCallId # <<>> /\ event.tag = Str(<<"tool_call_update">>))
    IN  IF ~shouldSendToolSummaries \/ settings.metaMode = "off" THEN st
        ELSE IF ~isTagVisible(event.tag) THEN st
        ELSE IF settings.metaMode = "verbose" /\ st.lastToolHash = Str(hash) THEN st
        ELSE IF settings.metaMode = "minimal" /\ toolCallId # <<>>
                /\ LifecycleSuppressed(state0, isTerminal, isStart, hash)
             THEN st
        ELSE IF settings.metaMode = "minimal" /\ toolCallId = <<>>
                /\ st.lastToolHash = Str(hash)
             THEN st
        ELSE IF ~MetaQuotaGranted(tracked, FALSE) THEN tracked
        ELSE [flushed EXCEPT !.out = Append(@, delivery), !.lastToolHash = Str(hash)]

\* Variant of emitTruncationNotice that does not look at the flag.
emitTruncationNoticeAlways(st) ==
    emitSystemStatus([st EXCEPT !.truncationNoticeEmitted = TRUE],
                     <<"output truncated">>, Str(<<"session_info_update">>),
                     TRUE, FALSE)

emitTruncationNotice(st) ==
    IF st.truncationNoticeEmitted THEN st
    ELSE emitSystemStatus([st EXCEPT !.truncationNoticeEmitted = TRUE],
                          <<"output truncated">>, Str(<<"session_info_update">>),
                          TRUE, FALSE)

\* Variant of the usage tuple that is always the hash of the text.
UsageTupleFromText(event) == hashText(event.text)

\* `${used}/${size}` when both are numbers, else hashText(event.text)
UsageTuple(event) ==
    IF event.used.t = "num" /\ event.size.t = "num"
    THEN NumStr(event.used.n) \o <<"/">> \o NumStr(event.size.n)
    ELSE hashText(event.text)

\* Variant of the text_delta branch that accepts the text of any stream.
OnTextDeltaAnyStream(st, event, ready) ==
    LET text == event.text
        remaining == settings.maxTurnChars - st.emittedTurnChars
        accepted == IF remaining < Len(text) THEN SubSeq(text, 1, remaining) ELSE text
    IN  IF text = <<>> \/ Len(accepted) = 0 THEN st
        ELSE [st EXCEPT !.emittedTurnChars = @ + Len(accepted)]

OnTextDelta(st, event, ready) ==
    LET text == event.text
        remaining == settings.maxTurnChars - st.emittedTurnChars
        accepted == IF remaining < Len(text) THEN SubSeq(text, 1, remaining) ELSE text
        appended == IF Len(accepted) > 0
                    THEN drainChunker([st EXCEPT !.chunkerBuffer = @ \o accepted,
                                                 !.emittedTurnChars = @ + Len(accepted)],
                                      FALSE, ready)
                    ELSE st
    IN  IF event.stream # "" /\ event.stream # "output" THEN st
        ELSE IF ~isTagVisible(event.tag) THEN st
        ELSE IF text = <<>> THEN st
        ELSE IF st.emittedTurnChars >= settings.maxTurnChars THEN emitTruncationNotice(st)
        ELSE IF Len(accepted) < Len(text) THEN emitTruncationNotice(appended)
        ELSE appended

\* Variant of the status branch that asks for no dedup.
OnStatusNoDedupe(st, event) ==
    IF ~isTagVisible(event.tag) THEN st
    ELSE IF event.tag = Str(<<"usage_update">>)
    THEN IF ~settings.showUsage THEN st
         ELSE IF Str(UsageTuple(event)) = st.lastUsageTuple THEN st
         ELSE emitSystemStatus([st EXCEPT !.lastUsageTuple = Str(UsageTuple(event))],
                               event.text, event.tag, FALSE, FALSE)
    ELSE emitSystemStatus(st, event.text, event.tag, FALSE, FALSE)

\* Variant of the status branch that forces every status.
OnStatusForced(st, event) ==
    IF ~isTagVisible(event.tag) THEN st
    ELSE emitSystemStatus(st, event.text, event.tag, TRUE, TRUE)

OnStatus(st, event) ==
    IF ~isTagVisible(event.tag) THEN st
    ELSE IF event.tag = Str(<<"usage_update">>)
    THEN IF ~settings.showUsage THEN st
         ELSE IF Str(UsageTuple(event)) = st.lastUsageTuple THEN st
         ELSE emitSystemStatus([st EXCEPT !.lastUsageTuple = Str(UsageTuple(event))],
                               event.text, event.tag, FALSE, TRUE)
    ELSE emitSystemStatus(st, event.text, event.tag, FALSE, TRUE)

\* Variant of the done / error branch that resets without flushing.
OnBoundaryResetOnly(st) == resetTurnState(st)

\* the done / error branch: await flush(true); resetTurnState()
OnBoundary(st) == resetTurnState(flush(st, TRUE, 0))

\* onEvent, for callers that await each call before making the next
OnEvent(st, event, ready) ==
    IF event.type = "text_delta" THEN OnTextDelta(st, event, ready)
    ELSE IF event.type = "status" THEN OnStatus(st, event)
    ELSE IF event.type = "tool_call" THEN emitToolSummary(st, event)
    ELSE IF event.type \in {"done", "error"} THEN OnBoundary(st)
    ELSE st

(***************************************************************************)
(* Reply projector: the configurations and events of the runs.             *)
(***************************************************************************)
ConfiguredMaxTurnChars == 3
ConfiguredMaxMetaEvents == 3

Stream(deliveryMode, metaMode, showUsage, overrides) ==
    [deliveryMode |-> deliveryMode, metaMode |-> metaMode, showUsage |-> showUsage,
     maxTurnChars |-> Num(ConfiguredMaxTurnChars),
     maxToolSummaryChars |-> Undef,
     maxStatusChars |-> Undef,
     maxMetaEventsPerTurn |-> Num(ConfiguredMaxMetaEvents),
     tagVisibility |-> overrides]

Scenarios == {"text", "status", "tool"}

\* runs that exhaust the meta quota, repeat usage updates, or override tag
\* visibility
PolicyScenarios == {"quota", "usage", "visibility"}

QuotaLimits == {1, 2}

AllTagsShown == [shown |-> ACP_TAG_VISIBILITY_DEFAULTS, hidden |-> {}]

AllTagsHidden == [shown |-> {}, hidden |-> ACP_TAG_VISIBILITY_DEFAULTS]

PolicyStreams(sc) ==
    IF sc = "quota"
    THEN {[Stream(Undef, m, Undef, NoOverrides) EXCEPT !.maxMetaEventsPerTurn = Num(q)] :
            m \in {Undef, Str(<<"verbose">>)}, q \in QuotaLimits}
    ELSE IF sc = "usage"
    THEN {Stream(Undef, Undef, Bool(TRUE), [shown |-> {<<"usage_update">>}, hidden |-> {}])}
    ELSE {Stream(Undef, Undef, Bool(TRUE), o) :
            o \in {NoOverrides, AllTagsShown, AllTagsHidden}}

Streams(sc) ==
    IF sc = "text"
    THEN {Stream(d, m, Undef, o) :
            d \in {Undef, Str(<<"final_only">>)},
            m \in {Undef, Str(<<"off">>)},
            o \in {NoOverrides, [shown |-> {}, hidden |-> {<<"agent_message_chunk">>}]}}
    ELSE IF sc = "status"
    THEN {Stream(Undef, m, u, o) :
            m \in {Undef, Str(<<"off">>)},
            u \in {Undef, Bool(TRUE)},
            o \in {NoOverrides, [shown |-> {<<"usage_update">>, <<"plan">>}, hidden |-> {}]}}
    ELSE {Stream(d, m, Undef, o) :
            d \in {Undef, Str(<<"final_only">>)},
            m \in {Undef, Str(<<"verbose">>), Str(<<"off">>)},
            o \in {NoOverrides}}
         \cup {Stream(Undef, Undef, Undef,
                      [shown |-> {}, hidden |-> {<<"tool_call_update">>}])}

MessageTag == Str(<<"agent_message_chunk">>)

WatchedTool == <<"call-1">>

ToolCall(tag, toolCallId, status, title) ==
    [NoEvent EXCEPT !.type = "tool_call",
                    !.text = ToolText(title, OptTrim(status)),
                    !.tag = Str(<<tag>>),
                    !.toolCallId = toolCallId,
                    !.status = status,
                    !.title = Str(title)]

UsageEvent(text, usedV, sizeV) ==
    [StatusEvent(text, Str(<<"usage_update">>)) EXCEPT !.used = usedV, !.size = sizeV]

Boundaries == {DoneEvent(<<"end_turn">>), ErrorEvent(<<"adapter failed">>, Undef)}

TextEvents ==
    {TextDelta(<<"a">>, "output", MessageTag),
     TextDelta(<<"b", "c">>, "", Undef),
     TextDelta(<<"d", "e", "f", "g">>, "output", MessageTag),
     TextDelta(<<>>, "output", MessageTag),
     TextDelta(<<"t">>, "thought", Str(<<"agent_thought_chunk">>)),
     TextDelta(<<"h">>, "output", Str(<<"agent_thought_chunk">>)),
     StatusEvent(<<"busy">>, Undef)}

StatusEvents ==
    {StatusEvent(<<"busy">>, Undef),
     StatusEvent(<<SP, "busy", SP>>, Undef),
     StatusEvent(<<"idle">>, Undef),
     StatusEvent(<<"plan: step">>, Str(<<"plan">>)),
     UsageEvent(<<"usage updated: 5/9">>, Num(5), Num(9)),
     UsageEvent(<<"usage">>, Num(5), Num(9)),
     UsageEvent(<<"usage updated">>, Undef, Undef),
     TextDelta(<<"a">>, "output", MessageTag)}

ToolEvents ==
    {ToolCall(tag, Str(WatchedTool), status, title) :
        tag \in {"tool_call", "tool_call_update"},
        status \in {Undef, Str(<<"in_progress">>), Str(<<"completed">>), Str(<<"FAILED">>)},
        title \in {<<"a">>, <<"b">>}}
    \cup {ToolCall("tool_call_update", Undef, Str(<<"completed">>), <<"a">>),
          TextDelta(<<"a">>, "output", MessageTag)}

QuotaEvents ==
    {StatusEvent(<<"busy">>, Undef),
     StatusEvent(<<"idle">>, Undef),
     ToolCall("tool_call_update", Str(WatchedTool), Undef, <<"a">>),
     ToolCall("tool_call_update", Str(WatchedTool), Undef, <<"b">>),
     TextDelta(<<"d", "e", "f", "g">>, "output", MessageTag)}

UsageEvents ==
    {UsageEvent(<<"usage updated: 5/9">>, Num(5), Num(9)),
     UsageEvent(<<"usage">>, Num(5), Num(9)),
     UsageEvent(<<"usage">>, Num(6), Num(9)),
     StatusEvent(<<"busy">>, Undef),
     StatusEvent(<<SP, "busy", SP>>, Undef),
     TextDelta(<<"a">>, "output", MessageTag)}

\* one event per update tag, of the type the tag comes with
VisibilityEvents ==
    {TextDelta(<<"a">>, "output", MessageTag),
     TextDelta(<<"h">>, "output", Str(<<"agent_thought_chunk">>)),
     TextDelta(<<"t">>, "thought", Str(<<"agent_thought_chunk">>)),
     ToolCall("tool_call", Str(WatchedTool), Undef, <<"a">>),
     ToolCall("tool_call_update", Str(WatchedTool), Undef, <<"b">>),
     UsageEvent(<<"usage updated: 5/9">>, Num(5), Num(9))}
    \cup {StatusEvent(<<tag>>, Str(<<tag>>)) :
            tag \in {"available_commands_update", "current_mode_update",
                     "config_option_update", "session_info_update", "plan"}}

\* every tag and status of an event for one tool call, a status event and a
\* text delta
LifecycleEvents ==
    {ToolCall(tag, Str(WatchedTool), status, <<"a">>) :
        tag \in {"tool_call", "tool_call_update"},
        status \in {Undef, Str(<<"in_progress">>), Str(<<"completed">>), Str(<<"FAILED">>)}}
    \cup {StatusEvent(<<"busy">>, Undef), TextDelta(<<"a">>, "output", MessageTag)}

\* text that fits and text that does not, two statuses and a tool summary
OverlapEvents ==
    {TextDelta(<<"b", "c">>, "output", MessageTag),
     TextDelta(<<"d", "e", "f", "g">>, "output", MessageTag),
     StatusEvent(<<"busy">>, Undef),
     StatusEvent(<<"idle">>, Undef),
     ToolCall("tool_call_update", Str(WatchedTool), Undef, <<"a">>)}

ReplyEvents ==
    IF scenario = "text" THEN TextEvents
    ELSE IF scenario = "status" THEN StatusEvents
    ELSE IF scenario = "tool" THEN ToolEvents
    ELSE IF scenario = "quota" THEN QuotaEvents
    ELSE IF scenario = "usage" THEN UsageEvents
    ELSE IF scenario = "lifecycle" THEN LifecycleEvents
    ELSE IF scenario = "overlap" THEN OverlapEvents
    ELSE VisibilityEvents

(***************************************************************************)
(* Reply projector: the calls, and what the claims observe of a run.       *)
(***************************************************************************)
ReplyState ==
    [emittedTurnChars |-> emittedTurnChars,
     emittedMetaEvents |-> emittedMetaEvents,
     truncationNoticeEmitted |-> truncationNoticeEmitted,
     lastStatusHash |-> lastStatusHash,
     lastToolHash |-> lastToolHash,
     lastUsageTuple |-> lastUsageTuple,
     toolLifecycleById |-> toolLifecycleById,
     chunkerBuffer |-> chunkerBuffer,
     pipelineQueue |-> pipelineQueue,
     out |-> <<>>]

ReplyStateBecomes(nx) ==
    /\ emittedTurnChars' = nx.emittedTurnChars
    /\ emittedMetaEvents' = nx.emittedMetaEvents
    /\ truncationNoticeEmitted' = nx.truncationNoticeEmitted
    /\ lastStatusHash' = nx.lastStatusHash
    /\ lastToolHash' = nx.lastToolHash
    /\ lastUsageTuple' = nx.lastUsageTuple
    /\ toolLifecycleById' = nx.toolLifecycleById
    /\ chunkerBuffer' = nx.chunkerBuffer
    /\ pipelineQueue' = nx.pipelineQueue
    /\ lastDeliveries' = nx.out

RECURSIVE BlockTextOf(_)
BlockTextOf(out) ==
    IF out = <<>> THEN <<>>
    ELSE (IF Head(out).kind = "block" THEN Head(out).text ELSE <<>>)
         \o BlockTextOf(Tail(out))

ToolDeliveries(out) == SelectSeq(out, LAMBDA d : d.kind = "tool")

IsNotice(d) ==
    /\ d.kind = "tool"
    /\ d.tag = Str(<<"session_info_update">>)
    /\ \E i \in 1..Len(d.text) : d.text[i] = "output truncated"

Notices(out) == SelectSeq(out, LAMBDA d : IsNotice(d))

\* deliveries of status text (emitSystemStatus), the notice included
IsStatusDelivery(d) == d.kind = "tool" /\ d.toolCallId = Undef /\ d.text[1] = "System: "

StatusDeliveries(out) == SelectSeq(out, LAMBDA d : IsStatusDelivery(d))

\* "tool"-kind deliveries that were subject to the meta quota
MetaDeliveries(out) == SelectSeq(out, LAMBDA d : d.kind = "tool" /\ ~IsNotice(d))

IsForWatchedDelivery(d) == d.kind = "tool" /\ d.toolCallId = Str(WatchedTool)

CarriesTerminalStatus(d) ==
    d.toolStatus \in {Str(<<"completed">>), Str(<<"failed">>), Str(<<"cancelled">>),
                      Str(<<"done">>), Str(<<"error">>)}

AnnouncesStart(d) ==
    d.toolStatus = Str(<<"in_progress">>) \/ d.tag = Str(<<"tool_call">>)

IsUsageUpdate(event) == event.type = "status" /\ event.tag = Str(<<"usage_update">>)

IsBoundary(event) == event.type \in {"done", "error"}

\* a text delta of the output stream (or of no stream) with text and a visible tag
IsVisibleOutput(event) ==
    /\ event.type = "text_delta"
    /\ event.stream \in {"", "output"}
    /\ event.text # <<>>
    /\ isTagVisible(event.tag)

IsForWatchedTool(event) ==
    event.type = "tool_call" /\ OptTrim(event.toolCallId) = WatchedTool

\* the event's status, normalised, is one of TERMINAL_TOOL_STATUSES
HasTerminalStatus(event) ==
    /\ normalizeToolStatus(event.status).t = "str"
    /\ normalizeToolStatus(event.status).s \in TERMINAL_TOOL_STATUSES

Observed(event, out) ==
    /\ lastEvent' = event
    /\ turnEvents' = IF IsBoundary(event) THEN 0 ELSE turnEvents + 1
    /\ turns' = IF IsBoundary(event) THEN turns + 1 ELSE turns
    /\ offered' = IF IsBoundary(event) THEN <<>>
                  ELSE IF IsVisibleOutput(event)
                  THEN SubSeq(offered \o event.text, 1,
                              Min(Len(offered \o event.text), settings.maxTurnChars + 1))
                  ELSE offered
    /\ blockText' = IF IsBoundary(event) THEN <<>> ELSE blockText \o BlockTextOf(out)
    /\ notices' = IF IsBoundary(event) THEN 0 ELSE notices + Len(Notices(out))
    /\ afterCompleted' =
            IF IsBoundary(event) THEN -1
            ELSE IF ~IsForWatchedTool(event) THEN afterCompleted
            ELSE IF afterCompleted >= 0 THEN afterCompleted + Len(ToolDeliveries(out))
            ELSE IF event.status = Str(<<"completed">>) THEN 0
            ELSE -1
    /\ turnStatuses' =
            IF IsBoundary(event) THEN {}
            ELSE IF event.type = "status" /\ ToolDeliveries(out) # <<>>
            THEN turnStatuses \cup {event}
            ELSE turnStatuses
    /\ metaSeen' = IF IsBoundary(event) THEN FALSE
                   ELSE metaSeen \/ event.type \in {"status", "tool_call"}
                                 \/ ToolDeliveries(out) # <<>>
    /\ prevStatuses' = IF IsBoundary(event) THEN turnStatuses
                       ELSE IF metaSeen THEN {}
                       ELSE prevStatuses
    /\ metaDelivered' = IF IsBoundary(event) THEN 0
                        ELSE metaDelivered + Len(MetaDeliveries(out))
    /\ termDeliveries' =
            IF IsBoundary(event) THEN 0
            ELSE termDeliveries
                 + Len(SelectSeq(out, LAMBDA d : IsForWatchedDelivery(d)
                                                /\ CarriesTerminalStatus(d)))
    /\ startDeliveries' =
            IF IsBoundary(event) THEN 0
            ELSE startDeliveries
                 + Len(SelectSeq(out, LAMBDA d : IsForWatchedDelivery(d)
                                                /\ AnnouncesStart(d)))
    /\ lastStatusText' =
            IF IsBoundary(event) THEN Undef
            ELSE IF StatusDeliveries(out) # <<>>
            THEN Str(StatusDeliveries(out)[Len(StatusDeliveries(out))].text)
            ELSE lastStatusText
    /\ lastUsageEvent' = IF IsBoundary(event) THEN NoEvent
                         ELSE IF IsUsageUpdate(event) THEN event
                         ELSE lastUsageEvent
    /\ terminalSeen' = IF IsBoundary(event) THEN FALSE
                       ELSE IF scenario = "lifecycle" /\ IsForWatchedTool(event)
                       THEN terminalSeen \/ HasTerminalStatus(event)
                       ELSE terminalSeen

\* onEvent(event), awaited by its caller; `ready` is how much of its buffer the
\* chunker emits on a drain that is not forced
onEvent(event, ready) ==
    /\ IF IsBoundary(event) THEN turns < MaxTurns ELSE turnEvents < MaxTurnEvents
    /\ ReplyStateBecomes(OnEvent(ReplyState, event, ready))
    /\ Observed(event, lastDeliveries')
    /\ UNCHANGED <<cfg, settings, shouldSendToolSummaries, scenario, inflight>>

FlushCall(force) == [NoEvent EXCEPT !.type = IF force THEN "flush(true)" ELSE "flush()"]

\* flush(force), awaited by its caller
Flush(force, ready) ==
    /\ turnEvents < MaxTurnEvents
    /\ ReplyStateBecomes(flush(ReplyState, force, ready))
    /\ Observed(FlushCall(force), lastDeliveries')
    /\ UNCHANGED <<cfg, settings, shouldSendToolSummaries, scenario, inflight>>

\* the coalescing timer of the block reply pipeline fires between two calls
PipelineTimer ==
    /\ pipelineQueue # <<>>
    /\ ReplyStateBecomes(pipelineFlush(ReplyState))
    /\ lastEvent' = [NoEvent EXCEPT !.type = "timer"]
    /\ blockText' = blockText \o BlockTextOf(lastDeliveries')
    /\ UNCHANGED <<cfg, settings, shouldSendToolSummaries, scenario, turnEvents, turns,
                   offered, notices, afterCompleted, turnStatuses, prevStatuses,
                   metaSeen, metaDelivered, termDeliveries, startDeliveries,
                   lastStatusText, lastUsageEvent, terminalSeen, inflight>>

ReplyTurnIdle ==
    /\ emittedTurnChars = 0
    /\ emittedMetaEvents = 0
    /\ truncationNoticeEmitted = FALSE
    /\ lastStatusHash = Undef
    /\ lastToolHash = Undef
    /\ lastUsageTuple = Undef
    /\ toolLifecycleById = <<>>
    /\ chunkerBuffer = <<>>
    /\ pipelineQueue = <<>>
    /\ lastEvent = NoEvent
    /\ lastDeliveries = <<>>
    /\ turnEvents = 0
    /\ turns = 0
    /\ offered = <<>>
    /\ blockText = <<>>
    /\ notices = 0
    /\ afterCompleted = -1
    /\ turnStatuses = {}
    /\ prevStatuses = {}
    /\ metaSeen = FALSE
    /\ metaDelivered = 0
    /\ termDeliveries = 0
    /\ startDeliveries = 0
    /\ lastStatusText = Undef
    /\ lastUsageEvent = NoEvent
    /\ terminalSeen = FALSE
    /\ inflight = <<>>

\* A promise that has not been resolved.
Pending == [code |-> "pending", signal |-> "pending", error |-> "pending"]

\* No waitForExit call has been made.
ExitIdle ==
    /\ waiting = FALSE
    /\ settled = FALSE
    /\ exit = Pending
    /\ listeners = {}
    /\ emitted = <<>>
    /\ resolveCalls = 0

ReplyIdle ==
    /\ scenario = "text"
    /\ cfg = Stream(Undef, Undef, Undef, NoOverrides)
    /\ settings = resolveAcpProjectionSettings(cfg)
    /\ shouldSendToolSummaries = TRUE
    /\ ReplyTurnIdle

ProjectorIdle ==
    /\ promptRequestIds = {}
    /\ ungatedRequestIds = {}
    /\ lastLine = TextLine(<<>>)
    /\ gatedOut = NoEvent
    /\ ungatedOut = NoEvent
    /\ tick = 0
    /\ awaiting = {}
    /\ honoredG = {}
    /\ honoredU = {}

GuardsIdle ==
    /\ guard = "limiter"
    /\ ttlMs = 0
    /\ state = <<>>
    /\ lastPruneMs = 0
    /\ counters = <<>>
    /\ ctrLastPruneMs = 0
    /\ lastCall = NoCall
    /\ win = NoWin
    /\ mono = 0
    /\ intervalMs = (IF guard = "limiter" THEN pruneIntervalMs ELSE ctrPruneIntervalMs)
    /\ observe = "windows"
    /\ run = NoRun
    /\ sweep = NoSweep
    /\ recency = <<>>
    /\ ref = NoRef
    /\ limited = NoLimit

GuardsInit ==
    /\ guard \in {"limiter", "counter"}
    /\ ttlMs \in (IF guard = "counter" THEN {0, TtlMs} ELSE {0})
    /\ state = <<>>
    /\ lastPruneMs = 0
    /\ counters = <<>>
    /\ ctrLastPruneMs = 0
    /\ lastCall = NoCall
    /\ win = NoWin
    /\ mono = 0
    /\ intervalMs = (IF guard = "limiter" THEN pruneIntervalMs ELSE ctrPruneIntervalMs)
    /\ observe = "windows"
    /\ run = NoRun
    /\ sweep = NoSweep
    /\ recency = <<>>
    /\ ref = NoRef
    /\ limited = NoLimit
    /\ ProjectorIdle
    /\ ExitIdle
    /\ ReplyIdle

GuardsNext ==
    \/ (\E key \in Keys, nowMs \in Times : isRateLimited(key, nowMs))
            /\ UNCHANGED <<projVars, replyVars, exitVars>>
    \/ LimiterClear /\ UNCHANGED <<projVars, replyVars, exitVars>>
    \/ (\E key \in Keys, nowMs \in Times : increment(key, nowMs))
            /\ UNCHANGED <<projVars, replyVars, exitVars>>
    \/ CounterClear /\ UNCHANGED <<projVars, replyVars, exitVars>>

SpecGuards == GuardsInit /\ [][GuardsNext]_vars

\* The same guards and calls, observed for the counts of a key (SpecGuardsCounts),
\* for their sweeps (SpecGuardsSweeps, with the shortest interval) and for
\* the order of the calls (SpecGuardsOrder).
GuardsObservedInit(observed) ==
    /\ guard \in {"limiter", "counter"}
    /\ ttlMs \in (IF guard = "counter" THEN {0, TtlMs} ELSE {0})
    /\ state = <<>>
    /\ lastPruneMs = 0
    /\ counters = <<>>
    /\ ctrLastPruneMs = 0
    /\ lastCall = NoCall
    /\ win = NoWin
    /\ mono = 0
    /\ intervalMs = (IF observed = "sweeps" THEN ShortPruneIntervalMs
                     ELSE IF guard = "limiter" THEN pruneIntervalMs
                     ELSE ctrPruneIntervalMs)
    /\ observe = observed
    /\ run = NoRun
    /\ sweep = NoSweep
    /\ recency = <<>>
    /\ ref = NoRef
    /\ limited = NoLimit
    /\ ProjectorIdle
    /\ ExitIdle
    /\ ReplyIdle

SpecGuardsCounts == GuardsObservedInit("counts") /\ [][GuardsNext]_vars

SpecGuardsSweeps == GuardsObservedInit("sweeps") /\ [][GuardsNext]_vars

SpecGuardsOrder == GuardsObservedInit("order") /\ [][GuardsNext]_vars

SpecGuardsReference == GuardsObservedInit("reference") /\ [][GuardsNext]_vars

SpecGuardsLimits == GuardsObservedInit("limits") /\ [][GuardsNext]_vars

ProjectorInit == ProjectorIdle /\ GuardsIdle /\ ReplyIdle /\ ExitIdle

ProjectorNext ==
    (\E line \in Lines : ingestLine(line)) /\ UNCHANGED <<guardVars, replyVars, exitVars>>

SpecProjector == ProjectorInit /\ [][ProjectorNext]_vars

\* how much the chunker may hold ready on a drain that is not forced
ReadyChars == {0, 1, ConfiguredMaxTurnChars}

ReplyInit ==
    /\ scenario \in Scenarios
    /\ cfg \in Streams(scenario)
    /\ settings = resolveAcpProjectionSettings(cfg)
    /\ shouldSendToolSummaries \in BOOLEAN
    /\ ReplyTurnIdle
    /\ GuardsIdle
    /\ ProjectorIdle
    /\ ExitIdle

ReplyNext ==
    \/ (\E event \in ReplyEvents :
            \E ready \in (IF event.type = "text_delta" THEN ReadyChars ELSE {0}) :
                onEvent(event, ready))
            /\ UNCHANGED <<guardVars, projVars, exitVars>>
    \/ (\E event \in Boundaries : onEvent(event, 0)) /\ UNCHANGED <<guardVars, projVars, exitVars>>
    \/ (\E force \in BOOLEAN, ready \in ReadyChars : Flush(force, ready))
            /\ UNCHANGED <<guardVars, projVars, exitVars>>
    \/ PipelineTimer /\ UNCHANGED <<guardVars, projVars, exitVars>>

SpecReply == ReplyInit /\ [][ReplyNext]_vars

PolicyInit ==
    /\ scenario \in PolicyScenarios
    /\ cfg \in PolicyStreams(scenario)
    /\ settings = resolveAcpProjectionSettings(cfg)
    /\ shouldSendToolSummaries \in BOOLEAN
    /\ ReplyTurnIdle
    /\ GuardsIdle
    /\ ProjectorIdle
    /\ ExitIdle

SpecReplyPolicy == PolicyInit /\ [][ReplyNext]_vars

\* minimal meta mode, with a quota of one or three meta events and with
\* tool_call_update shown or hidden
LifecycleStreams ==
    {[Stream(Undef, Undef, Undef, o) EXCEPT !.maxMetaEventsPerTurn = Num(q)] :
        q \in {1, ConfiguredMaxMetaEvents},
        o \in {NoOverrides, [shown |-> {}, hidden |-> {<<"tool_call_update">>}]}}

LifecycleInit ==
    /\ scenario = "lifecycle"
    /\ cfg \in LifecycleStreams
    /\ settings = resolveAcpProjectionSettings(cfg)
    /\ shouldSendToolSummaries \in BOOLEAN
    /\ ReplyTurnIdle
    /\ GuardsIdle
    /\ ProjectorIdle
    /\ ExitIdle

SpecReplyTools == LifecycleInit /\ [][ReplyNext]_vars

(***************************************************************************)
(* Reply projector: callers that do not await.  An onEvent call runs until *)
(* its first await that has work behind it and is then suspended; what it  *)
(* has still to do is resumed step by step, in any order with the steps of *)
(* the other suspended calls and with new calls.                           *)
(***************************************************************************)
\* the steps a suspended call has still to take
DeliverStep(delivery) ==
    [op |-> "deliver", delivery |-> delivery, field |-> "", value |-> Undef]

AssignStep(field, value) ==
    [op |-> "assign", delivery |-> BlockDelivery(<<>>), field |-> field, value |-> value]

\* A call that reaches `await params.deliver("tool", ...)`: r is the state the
\* awaited call leaves.  In live mode the call is suspended at
\* `await flush(true)`, before deliver is called; otherwise at the await of
\* deliver.  The hash is assigned after deliver has resolved.
SuspendedCall(st, r, field) ==
    IF ToolDeliveries(r.out) = <<>> THEN [now |-> r, later |-> <<>>]
    ELSE LET held == [r EXCEPT ![field] = st[field],
                               !.out = SubSeq(r.out, 1, Len(r.out) - 1)]
         IN  IF settings.deliveryMode = "live"
             THEN [now |-> held,
                   later |-> <<DeliverStep(r.out[Len(r.out)]),
                               AssignStep(field, r[field])>>]
             ELSE [now |-> [held EXCEPT !.out = r.out],
                   later |-> <<AssignStep(field, r[field])>>]

HashAssigned(event) ==
    IF event.type = "tool_call" THEN "lastToolHash" ELSE "lastStatusHash"

\* Variant of the call in which emitTruncationNotice sets its flag after the
\* await.
OnEventCallFlagAfterAwait(st, event, ready) ==
    LET c == SuspendedCall(st, OnEvent(st, event, ready), HashAssigned(event))
    IN  IF c.later = <<>> THEN c
        ELSE [now |-> [c.now EXCEPT !.truncationNoticeEmitted =
                                        st.truncationNoticeEmitted],
              later |-> Append(c.later,
                               AssignStep("truncationNoticeEmitted",
                                          c.now.truncationNoticeEmitted))]

\* onEvent up to the point where it is suspended
OnEventCall(st, event, ready) ==
    SuspendedCall(st, OnEvent(st, event, ready), HashAssigned(event))

ApplyStep(st, step) ==
    IF step.op = "deliver" THEN [st EXCEPT !.out = Append(@, step.delivery)]
    ELSE [st EXCEPT ![step.field] = step.value]

\* onEvent(event), not awaited by its caller
OverlapCall(event, ready) ==
    /\ turnEvents < MaxTurnEvents
    /\ ReplyStateBecomes(OnEventCall(ReplyState, event, ready).now)
    /\ inflight' = IF OnEventCall(ReplyState, event, ready).later = <<>>
                   THEN inflight
                   ELSE Append(inflight, OnEventCall(ReplyState, event, ready).later)
    /\ Observed(event, lastDeliveries')
    /\ UNCHANGED <<cfg, settings, shouldSendToolSummaries, scenario>>

\* the i-th suspended call takes its next step
Resume(i) ==
    /\ i \in 1..Len(inflight)
    /\ ReplyStateBecomes(ApplyStep(ReplyState, Head(inflight[i])))
    /\ inflight' = IF Len(inflight[i]) = 1
                   THEN SubSeq(inflight, 1, i - 1) \o SubSeq(inflight, i + 1, Len(inflight))
                   ELSE [inflight EXCEPT ![i] = Tail(@)]
    /\ lastEvent' = [NoEvent EXCEPT !.type = "resume"]
    /\ notices' = notices + Len(Notices(lastDeliveries'))
    /\ metaDelivered' = metaDelivered + Len(MetaDeliveries(lastDeliveries'))
    /\ UNCHANGED <<cfg, settings, shouldSendToolSummaries, scenario, turnEvents, turns,
                   offered, blockText, afterCompleted, turnStatuses, prevStatuses,
                   metaSeen, termDeliveries, startDeliveries, lastStatusText,
                   lastUsageEvent, terminalSeen>>

\* both delivery modes, minimal meta mode, a quota of one or two meta events
OverlapStreams ==
    {[Stream(d, Undef, Undef, NoOverrides) EXCEPT !.maxMetaEventsPerTurn = Num(q)] :
        d \in {Undef, Str(<<"final_only">>)}, q \in QuotaLimits}

OverlapInit ==
    /\ scenario = "overlap"
    /\ cfg \in OverlapStreams
    /\ settings = resolveAcpProjectionSettings(cfg)
    /\ shouldSendToolSummaries \in BOOLEAN
    /\ ReplyTurnIdle
    /\ GuardsIdle
    /\ ProjectorIdle
    /\ ExitIdle

OverlapNext ==
    \/ (\E event \in ReplyEvents :
            \E ready \in (IF event.type = "text_delta" THEN ReadyChars ELSE {0}) :
                OverlapCall(event, ready))
            /\ UNCHANGED <<guardVars, projVars, exitVars>>
    \/ (\E i \in 1..MaxTurnEvents : Resume(i)) /\ UNCHANGED <<guardVars, projVars, exitVars>>
    \/ PipelineTimer /\ UNCHANGED <<guardVars, projVars, exitVars>>

SpecReplyOverlap == OverlapInit /\ [][OverlapNext]_vars

(***************************************************************************)
(* Projection settings: projectors created with every combination of the   *)
(* configured limits below.                                                *)
(***************************************************************************)
\* The four limits of cfg.acp.stream.
LimitFields ==
    {"maxTurnChars", "maxToolSummaryChars", "maxStatusChars", "maxMetaEventsPerTurn"}

\* Configured values: absent, a string, NaN, Infinity, -Infinity, integers below,
\* inside and above every range, and the fractions 0.5, 63.25, 100.5, 8000.5.
ConfiguredLimits ==
    {Undef, Str(<<"64">>), NonFinite(0), NonFinite(1), NonFinite(-1),
     Num(0), Num(100), Num(500001),
     Quarters(2), Quarters(253), Quarters(402), Quarters(32002)}

Unconfigured ==
    [deliveryMode |-> Undef, metaMode |-> Undef, showUsage |-> Undef,
     maxTurnChars |-> Undef, maxToolSummaryChars |-> Undef, maxStatusChars |-> Undef,
     maxMetaEventsPerTurn |-> Undef, tagVisibility |-> NoOverrides]

\* createAcpReplyProjector with a configuration that differs in one limit.
createAcpReplyProjector(field, value) ==
    /\ cfg' = [cfg EXCEPT ![field] = value]
    /\ settings' = resolveAcpProjectionSettings(cfg')
    /\ UNCHANGED <<shouldSendToolSummaries, scenario, emittedTurnChars,
                   emittedMetaEvents, truncationNoticeEmitted, lastStatusHash,
                   lastToolHash, lastUsageTuple, toolLifecycleById, chunkerBuffer,
                   pipelineQueue, lastEvent, lastDeliveries, turnEvents, turns,
                   offered, blockText, notices, afterCompleted, turnStatuses,
                   prevStatuses, metaSeen, metaDelivered, termDeliveries,
                   startDeliveries, lastStatusText, lastUsageEvent, terminalSeen,
                   inflight>>

SettingsInit ==
    /\ scenario = "settings"
    /\ cfg = Unconfigured
    /\ settings = resolveAcpProjectionSettings(cfg)
    /\ shouldSendToolSummaries = TRUE
    /\ ReplyTurnIdle
    /\ GuardsIdle
    /\ ProjectorIdle
    /\ ExitIdle

SettingsNext ==
    (\E field \in LimitFields, value \in ConfiguredLimits :
        createAcpReplyProjector(field, value))
    /\ UNCHANGED <<guardVars, projVars, exitVars>>

SpecSettings == SettingsInit /\ [][SettingsNext]_vars

(***************************************************************************)
(* waitForExit: a promise for the exit of a child process.                 *)
(***************************************************************************)

\* The child emits at most MaxEmits events after the call.
MaxEmits == 3

\* null, in a field of a SpawnExit.
NoValue == "null"

ExitErrors == {"ENOENT", "EPERM", "EACCES"}

\* The (code, signal) pairs of a 'close' event: the child exited with a code
\* or was ended by a signal.
ExitStatuses == {<<"0", NoValue>>, <<"1", NoValue>>, <<NoValue, "SIGTERM">>, <<NoValue, "SIGKILL">>}

ChildError(err) == [name |-> "error", code |-> NoValue, signal |-> NoValue, err |-> err]

ChildClose(code, signal) == [name |-> "close", code |-> code, signal |-> signal,
                             err |-> NoValue]

ChildEvents == {ChildError(err) : err \in ExitErrors}
                   \cup {ChildClose(s[1], s[2]) : s \in ExitStatuses}

\* resolve(result) of the promise: the first call gives the promise its value.
resolve(promise, result) == IF promise = Pending THEN result ELSE promise

\* Variant of finish without the test of settled.
finishUngated(st, result) ==
    [settled |-> TRUE,
     exit |-> resolve(st.exit, result),
     resolveCalls |-> st.resolveCalls + 1]

\* finish(result), on the promise's state st.
finish(st, result) ==
    IF st.settled THEN st
    ELSE [settled |-> TRUE,
          exit |-> resolve(st.exit, result),
          resolveCalls |-> st.resolveCalls + 1]

\* The SpawnExit value that the listener of an event passes to finish.
ListenerResult(event) ==
    IF event.name = "error"
    THEN [code |-> NoValue, signal |-> NoValue, error |-> event.err]
    ELSE [code |-> event.code, signal |-> event.signal, error |-> NoValue]

\* waitForExit(child): creates the promise and adds the two once() listeners.
waitForExit ==
    /\ ~waiting
    /\ waiting' = TRUE
    /\ settled' = FALSE
    /\ exit' = Pending
    /\ listeners' = {"error", "close"}
    /\ UNCHANGED <<emitted, resolveCalls>>

\* The child emits an event: a once() listener is removed and then called. A
\* child closes at most once.
Emit(event) ==
    /\ waiting
    /\ Len(emitted) < MaxEmits
    /\ event.name = "close" => \A i \in 1..Len(emitted) : emitted[i].name # "close"
    /\ emitted' = Append(emitted, event)
    /\ listeners' = listeners \ {event.name}
    /\ LET st == [settled |-> settled, exit |-> exit, resolveCalls |-> resolveCalls]
           next == IF event.name \in listeners THEN finish(st, ListenerResult(event))
                   ELSE st
       IN  /\ settled' = next.settled
           /\ exit' = next.exit
           /\ resolveCalls' = next.resolveCalls
    /\ UNCHANGED waiting

ExitInit ==
    /\ GuardsIdle
    /\ ProjectorIdle
    /\ ExitIdle
    /\ ReplyIdle

ExitNext ==
    \/ waitForExit /\ UNCHANGED <<guardVars, projVars, replyVars>>
    \/ (\E event \in ChildEvents : Emit(event))
            /\ UNCHANGED <<guardVars, projVars, replyVars>>

SpecExit == ExitInit /\ [][ExitNext]_vars

(***************************************************************************)
(* Claims about the bounded resource guards.                               *)
(***************************************************************************)
WatchedEntry == MapGet(state, WatchedKey)

\* What the window rule says of a call isRateLimited(WatchedKey, t) made when the
\* calls so far define the window `win`: a call that starts a window is not
\* limited and the window starts at t; a call inside the window is limited iff it
\* is past the first maxRequests calls of the window, and the window keeps its start.
WindowRule(t) ==
    IF win = NoWin \/ t - win.start >= windowMs
    THEN /\ lastCall'.result = 0
         /\ WatchedEntry'.at = t
         /\ WatchedEntry'.count = 1
    ELSE /\ lastCall'.result = (IF win.calls + 1 > maxRequests THEN 1 ELSE 0)
         /\ WatchedEntry'.at = win.start

\* The last call was isRateLimited(WatchedKey, _).
WatchedCall ==
    guard = "limiter" /\ lastCall.op = "isRateLimited" /\ lastCall.key = WatchedKey

\* C1 (as stated): for a non-empty key that is not evicted by capacity, the first
\* maxRequests calls of a window are not limited, every further call with
\* t - windowStart < windowMs is limited, and the first call with
\* t - windowStart >= windowMs is not limited and starts a new window, whatever
\* the timestamps of the calls in between.
C1_WindowRuleAnyTimestamps ==
    [][WatchedCall' => \A t \in Times : isRateLimited(WatchedKey, t) => WindowRule(t)]_vars

\* C1 (amended): the same, for call sequences whose timestamps never decrease.
C1_WindowRuleMonotone ==
    [][(WatchedCall' /\ mono' >= 0) =>
         \A t \in Times : isRateLimited(WatchedKey, t) => WindowRule(t)]_vars

\* C1 witness: the watched key has been limited twice in one window of a call
\* sequence with non-decreasing timestamps.
C1_Witness ==
    /\ guard = "limiter"
    /\ lastCall.op = "isRateLimited"
    /\ lastCall.key = WatchedKey
    /\ lastCall.result = 1
    /\ win.calls = maxRequests + 2
    /\ mono >= 0

\* C2: after any sequence of isRateLimited / increment calls, with any keys and
\* timestamps, size() is at most maxTrackedKeys (both guards).
C2_SizeBounded ==
    /\ Len(state) <= maxTrackedKeys
    /\ Len(counters) <= maxTrackedKeys
    /\ size <= maxTrackedKeys

\* C2 witness: an increment has just evicted a key of a full bounded counter.
C2_Witness ==
    /\ guard = "counter"
    /\ lastCall.op = "increment"
    /\ lastCall.evicted > 0
    /\ size = maxTrackedKeys

(***************************************************************************)
(* Claims about PromptStreamProjector.ingestLine.  They are stated for     *)
(* both projector variants, each fed the same lines.                       *)
(***************************************************************************)
CarriesError(line) == line.doc.error.t # "absent"

\* result.stopReason is a string of at least one character
CarriesStopReason(line) ==
    /\ line.doc.error.t = "absent"
    /\ line.doc.result.t = "obj"
    /\ line.doc.result.stopReason.t = "str"
    /\ Len(line.doc.result.stopReason.s) > 0

\* ... of which at least one is not white space
CarriesVisibleStopReason(line) ==
    /\ CarriesStopReason(line)
    /\ \E i \in 1..Len(line.doc.result.stopReason.s) :
            line.doc.result.stopReason.s[i] # SP

IsDoneFor(event, line) ==
    /\ event.type = "done"
    /\ event.text = line.doc.result.stopReason.s

IsErrorFor(event, line) ==
    /\ event.type = "error"
    /\ event.text # <<>>
    /\ (line.doc.error.t = "obj" /\ line.doc.error.code.t = "num")
            => event.code = Str(<<ToString(line.doc.error.code.n)>>)

C4_HonoredIdConsumed ==
    [][IsResponseLine(lastLine') =>
        /\ LineId(lastLine') \in honoredG => gatedOut' = NoEvent
        /\ LineId(lastLine') \in honoredU => ungatedOut' = NoEvent
      ]_vars

FirstResponse == IsResponseLine(lastLine') /\ LineId(lastLine') \in awaiting

\* C5 as stated: after a session/prompt request with id X, the first later
\* response line with id X yields error{message, code} when it carries an
\* error and done{stopReason} when it carries a non-empty result.stopReason.
C5_FirstResponseTerminalNonEmpty ==
    [][FirstResponse =>
        /\ CarriesError(lastLine') =>
            IsErrorFor(gatedOut', lastLine') /\ IsErrorFor(ungatedOut', lastLine')
        /\ CarriesStopReason(lastLine') =>
            IsDoneFor(gatedOut', lastLine') /\ IsDoneFor(ungatedOut', lastLine')
      ]_vars

\* C5, amended: ... and done{stopReason} when it carries a result.stopReason
\* that is not blank (it has a character other than white space).
C5_FirstResponseTerminal ==
    [][FirstResponse =>
        /\ CarriesError(lastLine') =>
            IsErrorFor(gatedOut', lastLine') /\ IsErrorFor(ungatedOut', lastLine')
        /\ CarriesVisibleStopReason(lastLine') =>
            IsDoneFor(gatedOut', lastLine') /\ IsDoneFor(ungatedOut', lastLine')
      ]_vars

\* The awaited response came after an unrelated response was honoured.
C5_Witness ==
    /\ IsResponseLine(lastLine) /\ CarriesStopReason(lastLine)
    /\ LineId(lastLine) = <<"3">>
    /\ IsDoneFor(gatedOut, lastLine) /\ IsDoneFor(ungatedOut, lastLine)
    /\ honoredG = {<<"1">>, <<"3">>}

IsMessageChunkLine(line) ==
    /\ line.json /\ line.doc.rec
    /\ line.doc.method = Text("session/update")
    /\ line.doc.update.t = "obj"
    /\ line.doc.update.sessionUpdate = Text("agent_message_chunk")
    /\ line.doc.update.content.t = "obj"
    /\ line.doc.update.content.text.t = "str"
    /\ Len(line.doc.update.content.text.s) > 0

IsOutputDeltaFor(event, line) ==
    /\ event.type = "text_delta"
    /\ event.stream = "output"
    /\ event.text = line.doc.update.content.text.s

\* C6: a projector that has ingested no session/prompt request returns, for a
\* session/update agent_message_chunk line with non-empty content.text, a
\* text_delta with stream output whose text is exactly content.text.
C6_FreshChunkDelivered ==
    [][(awaiting = {} /\ ungatedRequestIds = {} /\ IsMessageChunkLine(lastLine')) =>
        /\ IsOutputDeltaFor(gatedOut', lastLine')
        /\ IsOutputDeltaFor(ungatedOut', lastLine')
      ]_vars

IsNotJson(line) ==
    /\ ~line.json
    /\ \E i \in 1..Len(line.chars) : line.chars[i] # SP

Visible(chars) == SelectSeq(chars, LAMBDA c : c # SP)

\* the line without the white space around it
IsTrimmed(text, chars) ==
    /\ text # <<>> /\ Head(text) # SP /\ text[Len(text)] # SP
    /\ Visible(text) = Visible(chars)
    /\ \E i \in 1..Len(chars) : SubSeq(chars, i, i + Len(text) - 1) = text

\* C7: for every non-blank line that is not valid JSON, ingestLine returns a
\* status event whose text is the trimmed raw line and leaves the correlation
\* set unchanged, in any projector state.
C7_MalformedLineIsStatus ==
    [][IsNotJson(lastLine') =>
        /\ gatedOut'.type = "status" /\ IsTrimmed(gatedOut'.text, lastLine'.chars)
        /\ ungatedOut'.type = "status" /\ IsTrimmed(ungatedOut'.text, lastLine'.chars)
        /\ promptRequestIds' = promptRequestIds
        /\ ungatedRequestIds' = ungatedRequestIds
      ]_vars

\* A padded malformed line was reported while a prompt is awaited.
C7_Witness ==
    /\ lastLine = TextLine(<<SP, "x", SP>>)
    /\ gatedOut.type = "status" /\ gatedOut.text = <<"x">>
    /\ ungatedOut.type = "status" /\ ungatedOut.text = <<"x">>
    /\ promptRequestIds # {}

(***************************************************************************)
(* Claims about the reply projector.                                       *)
(***************************************************************************)
\* the text accepted into the chunk buffer during the turn, wherever it is now
AcceptedText == blockText \o pipelineQueue \o chunkerBuffer

OverBudget == Len(offered) > settings.maxTurnChars

AcceptedIsBudgetPrefix == AcceptedText = SubSeq(offered, 1, settings.maxTurnChars)

\* C8 as stated: when the visible output text deltas of a turn total more than
\* maxTurnChars, the accepted text is exactly the first maxTurnChars characters
\* of their concatenation and exactly one "output truncated" status is
\* delivered in the turn.
C8_TruncatedOnceAlways == OverBudget => (AcceptedIsBudgetPrefix /\ notices = 1)

\* C8, amended: ... and exactly one "output truncated" status is delivered in
\* the turn provided the projector was created with shouldSendToolSummaries.
C8_TruncatedOnce ==
    OverBudget => /\ AcceptedIsBudgetPrefix
                  /\ shouldSendToolSummaries => notices = 1

\* After the notice, a further visible delta was dropped without a second one.
C8_Witness ==
    /\ OverBudget /\ shouldSendToolSummaries /\ notices = 1
    /\ Len(AcceptedText) = settings.maxTurnChars
    /\ IsVisibleOutput(lastEvent) /\ lastDeliveries = <<>>
    /\ truncationNoticeEmitted

\* C9: in minimal meta mode, after a tool_call event for WatchedTool with
\* status "completed" was processed, all further tool_call events for it in
\* the turn cause at most one additional delivery.
C9_AtMostOneAfterCompleted == settings.metaMode = "minimal" => afterCompleted <= 1

\* C10: a status event delivered before a done / error boundary and an
\* identical status event after the boundary (the first status or tool event
\* of the new turn) are both delivered.
C10_StatusDedupReset ==
    [][(lastEvent'.type = "status" /\ ~metaSeen /\ lastEvent' \in prevStatuses) =>
        /\ ToolDeliveries(lastDeliveries') # <<>>
        /\ ToolDeliveries(lastDeliveries')[1].text
                = prefixSystemMessage(Trim(lastEvent'.text))
      ]_vars

\* The status delivered before the boundary was delivered again after it.
C10_Witness ==
    /\ turns = 1
    /\ lastEvent.type = "status"
    /\ lastEvent \in prevStatuses
    /\ lastEvent \in turnStatuses
    /\ ToolDeliveries(lastDeliveries) # <<>>

(***************************************************************************)
(* Claims about the delivery policy of the reply projector.                *)
(***************************************************************************)
\* the text a status event is delivered with
FormattedStatus(event) ==
    prefixSystemMessage(truncateText(Trim(event.text), settings.maxStatusChars))

\* C11: within a turn the number of "tool"-kind deliveries other than the
\* forced notice never exceeds maxMetaEventsPerTurn; the count only grows
\* within a turn, so once maxMetaEventsPerTurn such deliveries have been made
\* no further status or tool_call event is delivered before the next
\* done / error.
C11_MetaQuotaBound == metaDelivered <= settings.maxMetaEventsPerTurn

\* The quota is used up and a status event that no dedup would suppress was
\* dropped.
C11_Witness ==
    /\ shouldSendToolSummaries
    /\ metaDelivered = settings.maxMetaEventsPerTurn
    /\ lastEvent.type = "status"
    /\ isTagVisible(lastEvent.tag)
    /\ lastStatusText # Undef
    /\ lastStatusText # Str(FormattedStatus(lastEvent))
    /\ lastDeliveries = <<>>

\* the text of the turn's visible output deltas that fits the character budget
AcceptedSoFar == SubSeq(offered, 1, Min(Len(offered), settings.maxTurnChars))

\* C12: in live delivery mode, when a call delivers a status or a tool
\* summary, the "tool"-kind delivery is the last delivery of the call and all
\* text accepted so far in the turn has been delivered as block text by then
\* (nothing is left in the chunker or in the dispatch queue).
C12_TextBeforeMeta ==
    (settings.deliveryMode = "live" /\ ToolDeliveries(lastDeliveries) # <<>>) =>
        /\ chunkerBuffer = <<>>
        /\ pipelineQueue = <<>>
        /\ blockText = AcceptedSoFar
        /\ Len(ToolDeliveries(lastDeliveries)) = 1
        /\ lastDeliveries[Len(lastDeliveries)].kind = "tool"

\* A tool_call event arrived while accepted text was pending: the text went
\* out as a block, then the tool summary.
C12_Witness ==
    /\ settings.deliveryMode = "live"
    /\ lastEvent.type = "tool_call"
    /\ Len(lastDeliveries) = 2
    /\ lastDeliveries[1].kind = "block"
    /\ lastDeliveries[1].text = AcceptedSoFar
    /\ lastDeliveries[2].kind = "tool"
    /\ offered # <<>>

BlockDeliveries(out) == SelectSeq(out, LAMBDA d : d.kind = "block")

\* C13: in final_only delivery mode nothing is handed to the dispatch queue
\* and nothing is delivered as a block while a text_delta, status or tool_call
\* event or a flush that is not forced is processed; a block is delivered only
\* by flush(true) or by a done / error event.
C13_FinalOnlyWithholds ==
    settings.deliveryMode = "final_only" =>
        /\ pipelineQueue = <<>>
        /\ BlockDeliveries(lastDeliveries) # <<>> =>
                lastEvent.type \in {"flush(true)", "done", "error"}

\* A tool summary was delivered in final_only mode while the accepted text
\* stayed in the chunker.
C13_Witness ==
    /\ settings.deliveryMode = "final_only"
    /\ lastEvent.type = "tool_call"
    /\ ToolDeliveries(lastDeliveries) # <<>>
    /\ chunkerBuffer # <<>>
    /\ chunkerBuffer = AcceptedSoFar
    /\ blockText = <<>>

\* C14: when onEvent(done) or onEvent(error) completes, the text delivered as
\* blocks during the turn, this call's deliveries included, is exactly the
\* text accepted in the turn, the chunker and the dispatch queue are empty,
\* the call delivered blocks only, and the turn state is reset.
C14_BoundaryDrains ==
    [][IsBoundary(lastEvent') =>
        /\ blockText \o BlockTextOf(lastDeliveries') = AcceptedSoFar
        /\ chunkerBuffer' = <<>>
        /\ pipelineQueue' = <<>>
        /\ ToolDeliveries(lastDeliveries') = <<>>
        /\ emittedTurnChars' = 0
        /\ emittedMetaEvents' = 0
        /\ truncationNoticeEmitted' = FALSE
      ]_vars

\* A turn of final_only mode ended: the whole budget of accepted text went
\* out in the boundary's forced flush.
C14_Witness ==
    /\ IsBoundary(lastEvent)
    /\ settings.deliveryMode = "final_only"
    /\ Len(BlockTextOf(lastDeliveries)) = settings.maxTurnChars
    /\ chunkerBuffer = <<>>
    /\ pipelineQueue = <<>>
    /\ emittedTurnChars = 0

WatchedLifecycle == MapGet(toolLifecycleById, WatchedTool)

\* C15: in minimal meta mode, for the tool-call id WatchedTool within a turn:
\* at most one delivery carries a terminal status, at most one delivery
\* announces a start (tag tool_call or status in_progress), no delivery has the
\* text that was rendered last for the id, and once the id's state is terminal
\* it stays terminal until done / error resets the turn.
C15_MinimalLifecycle ==
    [][settings.metaMode = "minimal" =>
        /\ termDeliveries' <= 1
        /\ startDeliveries' <= 1
        /\ MapHas(toolLifecycleById, WatchedTool) =>
             /\ \A i \in 1..Len(lastDeliveries') :
                    IsForWatchedDelivery(lastDeliveries'[i]) =>
                        Str(Trim(lastDeliveries'[i].text))
                            # WatchedLifecycle.lastRenderedHash
             /\ (WatchedLifecycle.terminal /\ ~IsBoundary(lastEvent')) =>
                    /\ MapHas(toolLifecycleById', WatchedTool)
                    /\ MapGet(toolLifecycleById', WatchedTool).terminal
      ]_vars

\* After a start and a terminal delivery for the id, a further terminal event
\* with another status and another title was suppressed.
C15_Witness ==
    /\ settings.metaMode = "minimal"
    /\ shouldSendToolSummaries
    /\ termDeliveries = 1
    /\ startDeliveries = 1
    /\ IsForWatchedTool(lastEvent)
    /\ lastEvent.status = Str(<<"FAILED">>)
    /\ lastEvent.tag = Str(<<"tool_call_update">>)
    /\ lastDeliveries = <<>>
    /\ WatchedLifecycle.terminal
    /\ WatchedLifecycle.lastRenderedHash # Str(hashText(renderToolSummaryText(lastEvent)))

HasUsagePair(event) == event.used.t = "num" /\ event.size.t = "num"

SameUsagePair(a, b) == a.used.n = b.used.n /\ a.size.n = b.size.n

\* `${used}/${size}`
UsagePairText(event) == NumStr(event.used.n) \o <<"/">> \o NumStr(event.size.n)

\* C17: with showUsage on and the usage tag made visible, a usage_update
\* event with the same (used, size) as the previous usage_update of the turn
\* is not delivered, whatever its text; one with another (used, size) passes
\* the usage check (the pair is recorded) and is delivered when tool summaries
\* are enabled, meta mode is not off, its text differs from the status
\* delivered last and quota remains.
C17_UsageDedupOnPair ==
    [][(/\ IsUsageUpdate(lastEvent') /\ HasUsagePair(lastEvent')
        /\ settings.showUsage
        /\ <<"usage_update">> \in settings.tagVisibility.shown
        /\ IsUsageUpdate(lastUsageEvent) /\ HasUsagePair(lastUsageEvent)) =>
            IF SameUsagePair(lastEvent', lastUsageEvent)
            THEN lastDeliveries' = <<>>
            ELSE /\ lastUsageTuple' = Str(UsagePairText(lastEvent'))
                 /\ (/\ shouldSendToolSummaries
                     /\ settings.metaMode # "off"
                     /\ lastStatusText # Str(FormattedStatus(lastEvent'))
                     /\ metaDelivered < settings.maxMetaEventsPerTurn) =>
                        /\ Len(ToolDeliveries(lastDeliveries')) = 1
                        /\ ToolDeliveries(lastDeliveries')[1].text
                                = FormattedStatus(lastEvent')
      ]_vars

\* After the update "usage updated: 5/9" with (5, 9) was delivered, the update
\* "usage" with the same pair was suppressed.
C17_Witness ==
    /\ shouldSendToolSummaries
    /\ settings.showUsage
    /\ lastEvent = UsageEvent(<<"usage">>, Num(5), Num(9))
    /\ lastStatusText = Str(<<"System: ", "usage updated: 5/9">>)
    /\ lastUsageTuple = Str(<<"5", "/", "9">>)
    /\ lastDeliveries = <<>>
    /\ metaDelivered = 1

UpdateTags ==
    {<<"agent_message_chunk">>, <<"agent_thought_chunk">>, <<"tool_call">>,
     <<"tool_call_update">>, <<"usage_update">>, <<"available_commands_update">>,
     <<"current_mode_update">>, <<"config_option_update">>, <<"session_info_update">>,
     <<"plan">>}

\* the visibility the claim gives a tag: the override when there is one, else
\* visible for the message-chunk and tool-call tags only
ExpectedVisible(tag) ==
    IF tag \in settings.tagVisibility.shown THEN TRUE
    ELSE IF tag \in settings.tagVisibility.hidden THEN FALSE
    ELSE tag \in {<<"agent_message_chunk">>, <<"tool_call">>, <<"tool_call_update">>}

\* C18: an event whose tag is hidden (by an override false, or by default
\* with no override) is dropped with no delivery and no change of the
\* projector's state; an event whose tag is visible (by an override true, or
\* by default with no override) is eligible: a non-empty text delta is
\* accepted while the character budget lasts, and a status or tool_call event
\* that is the first status / tool event of its turn is delivered with its tag
\* when tool summaries are enabled and meta mode is not off (a usage update
\* needs showUsage as well).
C18_TagVisibility ==
    [][(/\ lastEvent'.type \in {"text_delta", "status", "tool_call"}
        /\ lastEvent'.tag.t = "str"
        /\ lastEvent'.tag.s \in UpdateTags) =>
            IF ~ExpectedVisible(lastEvent'.tag.s)
            THEN /\ lastDeliveries' = <<>>
                 /\ UNCHANGED <<emittedTurnChars, emittedMetaEvents, chunkerBuffer,
                                pipelineQueue, lastStatusHash, lastToolHash,
                                lastUsageTuple, toolLifecycleById>>
            ELSE /\ (/\ lastEvent'.type = "text_delta"
                     /\ lastEvent'.text # <<>>
                     /\ emittedTurnChars < settings.maxTurnChars) =>
                        emittedTurnChars' > emittedTurnChars
                 /\ (/\ lastEvent'.type \in {"status", "tool_call"}
                     /\ ~metaSeen
                     /\ shouldSendToolSummaries
                     /\ settings.metaMode # "off"
                     /\ IsUsageUpdate(lastEvent') => settings.showUsage) =>
                        /\ Len(ToolDeliveries(lastDeliveries')) = 1
                        /\ ToolDeliveries(lastDeliveries')[1].tag = lastEvent'.tag
      ]_vars

\* the summary a tool_call event is delivered with
ToolSummary(event) ==
    truncateText(renderToolSummaryText(event), settings.maxToolSummaryChars)

\* what C19 says of a tool_call event with a visible tag in verbose mode: it
\* is suppressed when its summary equals the tool summary delivered last in
\* the turn, and otherwise delivered while quota remains
VerboseRule ==
    (/\ settings.metaMode = "verbose"
     /\ lastEvent'.type = "tool_call"
     /\ isTagVisible(lastEvent'.tag)) =>
        IF lastToolHash = Str(Trim(ToolSummary(lastEvent')))
        THEN lastDeliveries' = <<>>
        ELSE metaDelivered < settings.maxMetaEventsPerTurn =>
                /\ Len(ToolDeliveries(lastDeliveries')) = 1
                /\ ToolDeliveries(lastDeliveries')[1].text = ToolSummary(lastEvent')

\* C19 as stated: the verbose rule, in every projector.
C19_VerboseDedupAlways == [][VerboseRule]_vars

\* C19, amended: the verbose rule, provided the projector was created with
\* shouldSendToolSummaries true.
C19_VerboseDedup == [][shouldSendToolSummaries => VerboseRule]_vars

\* In verbose mode three tool summaries for one id were delivered in a turn,
\* two of them announcing a start and two carrying a terminal status: no
\* per-id guard applied.
C19_Witness ==
    /\ settings.metaMode = "verbose"
    /\ shouldSendToolSummaries
    /\ metaDelivered = 3
    /\ startDeliveries = 2
    /\ termDeliveries = 2
    /\ IsForWatchedTool(lastEvent)
    /\ lastEvent.tag = Str(<<"tool_call">>)
    /\ lastEvent.status = Str(<<"completed">>)
    /\ Len(ToolDeliveries(lastDeliveries)) = 1

\* C20: with metaMode off no status and no tool_call event causes a delivery
\* of any kind, and every "tool"-kind delivery is the "output truncated"
\* notice.
C20_MetaOffSilent ==
    settings.metaMode = "off" =>
        /\ lastEvent.type \in {"status", "tool_call"} => lastDeliveries = <<>>
        /\ \A i \in 1..Len(lastDeliveries) :
                lastDeliveries[i].kind = "tool" => IsNotice(lastDeliveries[i])
        /\ metaDelivered = 0

\* With metaMode off the notice of the turn was delivered, and a status event
\* after it was not.
C20_Witness ==
    /\ settings.metaMode = "off"
    /\ shouldSendToolSummaries
    /\ notices = 1
    /\ lastEvent.type = "status"
    /\ isTagVisible(lastEvent.tag)
    /\ lastDeliveries = <<>>

\* C21: when emittedMetaEvents has reached maxMetaEventsPerTurn and a visible
\* output text delta overflows the character budget for the first time in the
\* turn, the "output truncated" notice is delivered, and the quota counter is
\* the same after the call; no call that delivers the notice changes the
\* counter.
C21_NoticeBypassesQuota ==
    [][/\ (/\ emittedMetaEvents >= settings.maxMetaEventsPerTurn
           /\ ~truncationNoticeEmitted
           /\ IsVisibleOutput(lastEvent')
           /\ emittedTurnChars + Len(lastEvent'.text) > settings.maxTurnChars) =>
                /\ Len(Notices(lastDeliveries')) = 1
                /\ emittedMetaEvents' = emittedMetaEvents
       /\ Notices(lastDeliveries') # <<>> => emittedMetaEvents' = emittedMetaEvents
      ]_vars

\* The quota was used up by status / tool deliveries, then a text delta
\* overflowed the budget and the notice was delivered all the same.
C21_Witness ==
    /\ metaDelivered = settings.maxMetaEventsPerTurn
    /\ emittedMetaEvents = settings.maxMetaEventsPerTurn
    /\ IsVisibleOutput(lastEvent)
    /\ Len(Notices(lastDeliveries)) = 1
    /\ notices = 1
    /\ truncationNoticeEmitted

(***************************************************************************)
(* Claims about the bounded counter's counts (SpecGuardsCounts).           *)
(***************************************************************************)
\* The last call was increment(WatchedKey, _).
WatchedIncrement ==
    guard = "counter" /\ lastCall.op = "increment" /\ lastCall.key = WatchedKey

\* C22: for a non-empty key that is neither evicted by capacity nor idle for
\* ttlMs or more, the n-th call to increment returns n, n being counted from the
\* key's first call, or from the call that found it idle, evicted or cleared;
\* with no TTL configured the n-th call returns n whatever the timestamps.
C22_NthCallReturnsN ==
    [][(WatchedIncrement' /\ run'.calls > 0) => lastCall'.result = run'.calls]_vars

\* C22 witness: with no TTL, the third call on the key returns 3 although a call
\* came TtlMs or more after the call before it.
C22_Witness ==
    /\ WatchedIncrement
    /\ ttlMs = 0
    /\ run.calls = 3
    /\ run.idle
    /\ lastCall.result = 3

\* The entry of the watched key in the counter.
WatchedCount == MapGet(counters, WatchedKey)

\* A TTL is configured and the step is an increment on the watched key, called
\* ttlMs or more after the key's latest update.
IdleKeyIncremented ==
    /\ ttlMs > 0
    /\ WatchedIncrement'
    /\ IdleAt(run, run'.last)

\* C23 (as stated): with a TTL configured, the next increment of a key that has
\* been idle for at least ttlMs returns 1, and as long as the key is neither
\* evicted by capacity nor cleared its entry is in the map.
C23_IdleKeyKept ==
    [][/\ IdleKeyIncremented => lastCall'.result = 1
       /\ (guard = "counter" /\ ttlMs > 0 /\ run'.calls # 0) =>
                MapHas(counters', WatchedKey)
      ]_vars

\* C23 (amended): with a TTL configured, the next increment of a key that has
\* been idle for at least ttlMs returns 1 and leaves the key in the map with
\* count 1; the entry of a key leaves the map only by clear(), by capacity
\* eviction, or by the sweep of a call on another key that is due and finds the
\* key idle for ttlMs or more.
C23_IdleKeyReset ==
    [][/\ IdleKeyIncremented =>
            /\ lastCall'.result = 1
            /\ MapHas(counters', WatchedKey)
            /\ WatchedCount' = [key |-> WatchedKey, count |-> 1, at |-> run'.last]
       /\ (guard = "counter" /\ MapHas(counters, WatchedKey)
                             /\ ~MapHas(counters', WatchedKey)) =>
            \/ lastCall'.op = "clear"
            \/ (lastCall'.evicted > 0 /\ run'.calls = 0)
            \/ \E k \in NonEmptyKeys \ {WatchedKey}, t \in Times :
                    /\ increment(k, t)
                    /\ CounterSweepDue(t)
                    /\ IdleAt(run, t)
      ]_vars

\* C23 witness: the key was found idle by its own increment, which returned 1 and
\* left the key in the map.
C23_Witness ==
    /\ WatchedIncrement
    /\ ttlMs = TtlMs
    /\ run.calls = 1
    /\ run.idle
    /\ lastCall.result = 1
    /\ MapHas(counters, WatchedKey)

(***************************************************************************)
(* Claims about the guards' sweeps (SpecGuardsCounts, SpecGuardsSweeps).   *)
(***************************************************************************)
\* The map holds no entry, other than key's, whose age at nowMs is limit or more.
NoStaleEntry(m, limit, key, nowMs) ==
    \A i \in 1..Len(m) : m[i].key # key => nowMs - m[i].at < limit

\* If the step is a call with one of the keys, made at a time when a sweep is
\* due, it leaves no stale entry.
CallSweeps(keys) ==
    LET k == lastCall'.key
    IN  k \in keys =>
            \A t \in Times :
                /\ (lastCall'.op = "isRateLimited" /\ t - lastPruneMs >= intervalMs
                        /\ isRateLimited(k, t)) =>
                            NoStaleEntry(state', windowMs, k, t)
                /\ (lastCall'.op = "increment" /\ ttlMs > 0
                        /\ t - ctrLastPruneMs >= intervalMs /\ increment(k, t)) =>
                            NoStaleEntry(counters', ttlMs, k, t)

\* C24 (as stated): when a call arrives at time now with now - lastPrune >=
\* pruneIntervalMs, then after the call the guard holds no entry, other than the
\* called key's, whose age is >= windowMs (limiter) or >= ttlMs (counter with a
\* TTL); for every key, the empty key included.
C24_StaleKeysPrunedAnyKey == [][CallSweeps(Keys)]_vars

\* C24 (amended): the same, for calls with a non-empty key.
C24_StaleKeysPruned == [][CallSweeps(NonEmptyKeys)]_vars

\* C24 witness: a call on another key has found the watched key idle for ttlMs
\* or more and the key is no longer in the counter, which is not full.
C24_Witness ==
    /\ guard = "counter"
    /\ ttlMs = TtlMs
    /\ lastCall.op = "increment"
    /\ lastCall.key = KeyNames[2]
    /\ lastCall.evicted = 0
    /\ run.calls > 0
    /\ run.stale
    /\ MapKeys(counters) = {KeyNames[2]}

\* The step is a call that swept.
SweptInStep == sweep' # sweep /\ lastCall'.op # "clear"

\* C25 (as stated): after any sequence of isRateLimited / increment / clear calls
\* with non-decreasing timestamps, the timestamps of any two sweeps of the guard
\* differ by at least pruneIntervalMs (it is enough to compare each sweep with
\* the one before it).
C25_SweepsApartAlways ==
    [][(SweptInStep /\ sweep.at >= 0 /\ mono' >= 0) =>
            sweep'.at - sweep.at >= intervalMs]_vars

\* C25 (amended): the same, for two sweeps with no clear() between them.
C25_SweepsApart ==
    [][(SweptInStep /\ sweep.at >= 0 /\ ~sweep.cleared /\ mono' >= 0) =>
            sweep'.at - sweep.at >= intervalMs]_vars

\* C25 witness: in a call sequence with non-decreasing timestamps the guard has
\* swept twice, pruneIntervalMs apart, with no clear() in between or since.
C25_Witness ==
    /\ lastCall.op \in {"isRateLimited", "increment"}
    /\ lastCall.key # ""
    /\ sweep.before >= 0
    /\ sweep.at - sweep.before = intervalMs
    /\ ~sweep.cleared
    /\ mono = sweep.at
    /\ size = maxTrackedKeys

(***************************************************************************)
(* Claims about the order of eviction (SpecGuardsOrder).                   *)
(***************************************************************************)
\* The map of the guard under test, and its keys in map order (oldest first).
Tracked == IF guard = "limiter" THEN state ELSE counters

TrackedKeys == [i \in 1..Len(Tracked) |-> Tracked[i].key]

\* The position of a key in the order of latest calls (greater: called later).
CallRank(k) == CHOOSE i \in 1..Len(recency) : recency[i] = k

\* The keys the step took out of the map.
Removed == MapKeys(Tracked) \ MapKeys(Tracked')

\* C26: every call on a non-empty key leaves that key in the map, at the
\* most-recent position, and the map's order is the order of the keys' latest
\* calls; when the call exceeds maxTrackedKeys, the keys evicted were called
\* last before every key that stays.  A call with the empty key touches nothing.
C26_EvictsLeastRecent ==
    [][lastCall'.op \in {"isRateLimited", "increment"} =>
        IF lastCall'.key = ""
        THEN Tracked' = Tracked
        ELSE /\ Len(Tracked') >= 1
             /\ TrackedKeys'[Len(Tracked')] = lastCall'.key
             /\ TrackedKeys' = SelectSeq(recency', LAMBDA k : k \in MapKeys(Tracked'))
             /\ \E evicted \in SUBSET Removed :
                    /\ Cardinality(evicted) = lastCall'.evicted
                    /\ lastCall'.key \notin evicted
                    /\ \A e \in evicted, k \in MapKeys(Tracked') \ {lastCall'.key} :
                            CallRank(e) < CallRank(k)
      ]_vars

\* C26 witness: of two keys the one inserted first was called again, and a call
\* on a third key has evicted the other one.
C26_Witness ==
    /\ lastCall.key = KeyNames[3]
    /\ lastCall.evicted = 1
    /\ recency = <<KeyNames[2], KeyNames[1], KeyNames[3]>>
    /\ TrackedKeys = <<KeyNames[1], KeyNames[3]>>
    /\ Tracked[1].count = 2

(***************************************************************************)
(* Further claims about PromptStreamProjector.ingestLine.                  *)
(***************************************************************************)
\* The text fields of a text chunk: content.text and text.
ChunkTextFields(update) ==
    {update.text} \cup (IF update.content.t = "obj" THEN {update.content.text} ELSE {})

\* A session/update line with a message or thought chunk in which a text field
\* is present but empty, and no text field holds any text.
IsEmptyTextChunkLine(line) ==
    /\ line.json
    /\ asTrimmedString(line.doc.method) = SessionUpdateMethod
    /\ UpdateOf(line.doc).t = "obj"
    /\ UpdateOf(line.doc).sessionUpdate \in
            {Text("agent_message_chunk"), Text("agent_thought_chunk")}
    /\ Str(<<>>) \in ChunkTextFields(UpdateOf(line.doc))
    /\ \A f \in ChunkTextFields(UpdateOf(line.doc)) : f.t = "str" => f.s = <<>>

UpdateEventOf(line) ==
    IF line.json /\ isRecord(line.doc) /\ isAcpJsonRpcMessage(line.doc)
                 /\ ~IsPromptRequest(line.doc)
    THEN GatedParseSessionUpdateEvent(line.doc)
    ELSE NoEvent

LeavesSetAlone(ids, line) ==
    \/ IsBlank(line)
    \/ IsMalformed(line)
    \/ ~isRecord(line.doc) \/ ~isAcpJsonRpcMessage(line.doc)
    \/ asTrimmedString(line.doc.method) = SessionUpdateMethod
    \/ IsResponseLine(line) /\ LineId(line) \notin ids
    \/ IsResponseLine(line) /\ ~CarriesError(line) /\ ~CarriesStopReason(line)

\* The set after a line, given the event returned for it: a prompt request adds
\* its id, a response that was honoured (done / error returned) removes its id.
SetAfter(ids, line, event) ==
    IF IsPromptLine(line) THEN ids \cup {LineId(line)}
    ELSE IF IsResponseLine(line) /\ IsTerminal(event) THEN ids \ {LineId(line)}
    ELSE ids

\* C30: ingestLine (gating variant) changes the correlation set only by adding
\* the id of a session/prompt request or by removing the id of a response it
\* honours; blank, malformed, non-qualifying, session-update and
\* unmatched-response lines, and a result response for an awaited id that lacks
\* a non-empty stopReason, leave the set unchanged.  The variant without
\* consumePromptResponse changes its set only by adding the id of a request.
C30_SetChanges ==
    [][/\ promptRequestIds' = SetAfter(promptRequestIds, lastLine', gatedOut')
       /\ LeavesSetAlone(promptRequestIds, lastLine') =>
                promptRequestIds' = promptRequestIds
       /\ ungatedRequestIds' \in {ungatedRequestIds,
                                  SetAfter(ungatedRequestIds, lastLine', NoEvent)}
       /\ LeavesSetAlone(ungatedRequestIds, lastLine') =>
                ungatedRequestIds' = ungatedRequestIds
      ]_vars

\* C30 witness: a result response without a stopReason came for an awaited id,
\* nothing was returned and the id is still awaited.
C30_Witness ==
    /\ IsResponseLine(lastLine)
    /\ ~CarriesError(lastLine)
    /\ ~CarriesStopReason(lastLine)
    /\ LineId(lastLine) \in promptRequestIds
    /\ Cardinality(promptRequestIds) = 2
    /\ gatedOut = NoEvent

(***************************************************************************)
(* Claims about the projection settings (SpecSettings).                    *)
(***************************************************************************)
\* The range and the default of each limit, as the claim gives them.
LimitRange(field) ==
    IF field = "maxTurnChars" THEN [min |-> 1, max |-> 500000, default |-> 24000]
    ELSE IF field = "maxMetaEventsPerTurn" THEN [min |-> 1, max |-> 2000, default |-> 64]
    ELSE [min |-> 64, max |-> 8000, default |-> 320]

\* r is the value rounded to an integer: the value itself, or for n / 4 the
\* integer r with r - 1/2 <= n / 4 < r + 1/2.
IsRounded(r, value) ==
    IF value.t = "num" THEN r = value.n
    ELSE 4 * r - 2 <= value.n /\ value.n < 4 * r + 2

\* The bound of the range nearest to r, or r itself when it is in the range.
NearestInRange(r, range) ==
    IF r < range.min THEN range.min ELSE IF r > range.max THEN range.max ELSE r

\* C28: every resolved limit is in its range ([1, 500000] for maxTurnChars,
\* [64, 8000] for maxToolSummaryChars and maxStatusChars, [1, 2000] for
\* maxMetaEventsPerTurn); a configured value that is not a finite number yields
\* the default (24000, 320, 320, 64); a finite number yields its rounding,
\* clamped to the nearest bound of the range.
C28_SettingsClamped ==
    \A field \in LimitFields :
        LET value == cfg[field]
            range == LimitRange(field)
        IN  /\ settings[field] \in range.min..range.max
            /\ value.t \notin {"num", "quarters"} => settings[field] = range.default
            /\ value.t \in {"num", "quarters"} =>
                    \E r \in {value.n \div 4, value.n \div 4 + 1, value.n} :
                        /\ IsRounded(r, value)
                        /\ settings[field] = NearestInRange(r, range)

\* C28 witness: 0.5 became 1, 100.5 became 101, NaN the default 320 and 500001
\* the upper bound 2000.
C28_Witness ==
    /\ cfg.maxTurnChars = Quarters(2) /\ settings.maxTurnChars = 1
    /\ cfg.maxToolSummaryChars = Quarters(402) /\ settings.maxToolSummaryChars = 101
    /\ cfg.maxStatusChars = NonFinite(0) /\ settings.maxStatusChars = 320
    /\ cfg.maxMetaEventsPerTurn = Num(500001) /\ settings.maxMetaEventsPerTurn = 2000

(***************************************************************************)
(* Claims about the turn state of the reply projector.                     *)
(***************************************************************************)
\* The projector as createAcpReplyProjector leaves it: the turn-scoped fields
\* at their initial values, an empty chunker and an empty pipeline.
FreshProjector ==
    [emittedTurnChars |-> 0,
     emittedMetaEvents |-> 0,
     truncationNoticeEmitted |-> FALSE,
     lastStatusHash |-> Undef,
     lastToolHash |-> Undef,
     lastUsageTuple |-> Undef,
     toolLifecycleById |-> <<>>,
     chunkerBuffer |-> <<>>,
     pipelineQueue |-> <<>>,
     out |-> <<>>]

\* C31: after onEvent(done) or onEvent(error) has completed, every
\* turn-scoped field (emitted chars, emitted meta events, truncation flag,
\* last status / tool / usage hashes, tool lifecycle map) has its initial
\* value and nothing is left in the chunker or the pipeline, so every event
\* of the next turn makes the deliveries, and leaves the state, that it
\* makes on a freshly created projector with the same settings.
C31_BoundaryLeavesFreshProjector ==
    IsBoundary(lastEvent) =>
        /\ ReplyState = FreshProjector
        /\ \A event \in ReplyEvents \cup Boundaries, ready \in ReadyChars :
              OnEvent(ReplyState, event, ready) = OnEvent(FreshProjector, event, ready)

\* a boundary has completed after a turn in which a status was delivered
C31_Witness ==
    /\ IsBoundary(lastEvent)
    /\ prevStatuses # {}
    /\ ReplyState = FreshProjector

\* the characters of the turn that the chunker or the pipeline holds, or that
\* were delivered as blocks
HeldChars == Len(chunkerBuffer) + Len(pipelineQueue) + Len(blockText)

\* how much of an event's text the budget admits: all of a visible output
\* text up to what remains of maxTurnChars, nothing of any other event
Admitted(event) ==
    IF IsVisibleOutput(event)
    THEN Min(Len(event.text), settings.maxTurnChars - emittedTurnChars)
    ELSE 0

BudgetsInBounds ==
    /\ 0 <= emittedTurnChars
    /\ emittedTurnChars <= settings.maxTurnChars
    /\ 0 <= emittedMetaEvents
    /\ emittedMetaEvents <= settings.maxMetaEventsPerTurn
    /\ emittedTurnChars = HeldChars

\* C32: in every reachable state of the reply projector
\* 0 <= emittedTurnChars <= maxTurnChars and
\* 0 <= emittedMetaEvents <= maxMetaEventsPerTurn; emittedTurnChars is the
\* number of characters appended to the chunker in the turn, and a call
\* raises it only by the length of the visible output-stream text it appends
\* (the text of a thought stream or of a hidden tag never consumes budget).
C32_BudgetInvariants ==
    /\ []BudgetsInBounds
    /\ [][emittedTurnChars' > emittedTurnChars =>
            /\ IsVisibleOutput(lastEvent')
            /\ emittedTurnChars' - emittedTurnChars = Admitted(lastEvent')
            /\ HeldChars' - HeldChars = Admitted(lastEvent')]_vars
    /\ [][(lastEvent'.type = "text_delta" /\ ~IsVisibleOutput(lastEvent'))
            => (emittedTurnChars' = emittedTurnChars /\ HeldChars' = HeldChars)]_vars

\* both budgets are used up, and the text of the turn was cut
C32_Witness ==
    /\ emittedTurnChars = settings.maxTurnChars
    /\ emittedMetaEvents = settings.maxMetaEventsPerTurn
    /\ truncationNoticeEmitted
    /\ Len(offered) > settings.maxTurnChars

(***************************************************************************)
(* Claims about the dedup state and the tool summaries of the projector.   *)
(***************************************************************************)
\* the event of the step was a status, usage or tool_call event, and the call
\* delivered nothing for it
DroppedMetaEvent ==
    /\ lastEvent'.type \in {"status", "tool_call"}
    /\ ToolDeliveries(lastDeliveries') = <<>>

\* C33: dedup state advances only on delivery: a status, usage or tool_call
\* event that is dropped without being delivered (quota exhausted, meta mode
\* off, tool summaries disabled) leaves lastStatusHash, lastToolHash,
\* lastUsageTuple and the tool lifecycle map as they were, so it cannot make a
\* later event count as a duplicate or as an already announced start or
\* terminal.
C33_DedupAdvancesOnDeliveryOnly ==
    [][DroppedMetaEvent =>
            UNCHANGED <<lastStatusHash, lastToolHash, lastUsageTuple,
                        toolLifecycleById>>]_vars

\* C34: in minimal meta mode the first tool_call event of a turn that carries
\* a terminal status (completed, failed, cancelled, done, error) for a
\* tool-call id is delivered whenever tool summaries are enabled, its tag is
\* visible and quota remains, whatever events for the id came before it and
\* whether its tag is tool_call or tool_call_update.
C34_FirstTerminalDelivered ==
    [][(/\ settings.metaMode = "minimal"
        /\ IsForWatchedTool(lastEvent')
        /\ HasTerminalStatus(lastEvent')
        /\ ~terminalSeen
        /\ shouldSendToolSummaries
        /\ isTagVisible(lastEvent'.tag)
        /\ emittedMetaEvents < settings.maxMetaEventsPerTurn) =>
            /\ Len(ToolDeliveries(lastDeliveries')) = 1
            /\ IsForWatchedDelivery(ToolDeliveries(lastDeliveries')[1])
            /\ CarriesTerminalStatus(ToolDeliveries(lastDeliveries')[1])]_vars

\* the event of the step is visible output text that does not fit into what
\* remains of maxTurnChars
OverflowingText ==
    /\ IsVisibleOutput(lastEvent')
    /\ Len(lastEvent'.text) > settings.maxTurnChars - emittedTurnChars

\* C35: when shouldSendToolSummaries is false, deliver is never called with
\* kind "tool", whatever the events, the truncation notice included: text
\* beyond maxTurnChars is dropped without a notice, and the truncation flag
\* is set all the same.
C35_NoToolDeliveriesWhenDisabled ==
    /\ [](~shouldSendToolSummaries =>
            /\ ToolDeliveries(lastDeliveries) = <<>>
            /\ notices = 0
            /\ metaDelivered = 0)
    /\ [][(~shouldSendToolSummaries /\ OverflowingText) =>
            /\ truncationNoticeEmitted'
            /\ emittedTurnChars' = settings.maxTurnChars
            /\ ToolDeliveries(lastDeliveries') = <<>>
            /\ blockText' \o pipelineQueue' \o chunkerBuffer'
                 = SubSeq(offered', 1, settings.maxTurnChars)]_vars

\* text was cut in a projector with tool summaries disabled: the flag is set
\* and no notice was delivered
C35_Witness ==
    /\ ~shouldSendToolSummaries
    /\ truncationNoticeEmitted
    /\ Len(offered) > settings.maxTurnChars
    /\ notices = 0

(***************************************************************************)
(* Claims about callers that do not await.                                 *)
(***************************************************************************)
\* the deliveries that the suspended calls have still to make
RECURSIVE PendingDeliveries(_)
PendingDeliveries(calls) ==
    IF calls = <<>> THEN <<>>
    ELSE SelectSeq(Head(calls), LAMBDA step : step.op = "deliver")
         \o PendingDeliveries(Tail(calls))

PendingNotices ==
    Len(SelectSeq(PendingDeliveries(inflight), LAMBDA step : IsNotice(step.delivery)))

PendingMeta ==
    Len(SelectSeq(PendingDeliveries(inflight), LAMBDA step : ~IsNotice(step.delivery)))

\* C36: when onEvent calls overlap and interleave in any order at their
\* suspension points, with no done / error in the turn, the bounds of the
\* turn hold all the same: the accepted text is never longer than
\* maxTurnChars, at most one truncation notice is delivered, and the meta
\* deliveries that are not forced never exceed maxMetaEventsPerTurn (the
\* deliveries that suspended calls have still to make are counted in).
C36_BoundsUnderOverlap ==
    /\ emittedTurnChars <= settings.maxTurnChars
    /\ Len(blockText) + Len(pipelineQueue) + Len(chunkerBuffer) <= settings.maxTurnChars
    /\ notices + PendingNotices <= 1
    /\ metaDelivered + PendingMeta <= settings.maxMetaEventsPerTurn

\* live mode: two calls are still suspended while the budget of text and the
\* quota are used up, and the notice and as many meta events as the quota
\* allows were delivered by resumed calls
C36_Witness ==
    /\ settings.deliveryMode = "live"
    /\ Len(inflight) >= 2
    /\ emittedTurnChars = settings.maxTurnChars
    /\ notices = 1
    /\ metaDelivered = settings.maxMetaEventsPerTurn
    /\ turnEvents = MaxTurnEvents

(***************************************************************************)
(* Claims about the limiter against a reference, and about its limits.     *)
(***************************************************************************)
\* the limiter no longer holds a window that the reference still keeps
SweptKeys == {k \in NonEmptyKeys : ref.entries[k].count > 0 /\ ~MapHas(state, k)}

\* C37: in a call sequence whose timestamps never decrease and that uses at
\* most maxTrackedKeys distinct non-empty keys, every call of isRateLimited
\* returns what the reference limiter returns, which keeps the {count,
\* windowStart} of every key and never sweeps or evicts; a key the limiter
\* still tracks has the count and the window start the reference has.
C37_MatchesReference ==
    (lastCall.op = "isRateLimited" /\ ref # Unfollowed /\ observe = "reference") =>
        /\ lastCall.result = ref.result
        /\ lastCall.evicted = 0
        /\ \A k \in NonEmptyKeys :
              MapHas(state, k) =>
                  /\ MapGet(state, k).count = ref.entries[k].count
                  /\ MapGet(state, k).at = ref.entries[k].windowStart

\* a call is limited, as in the reference, after a sweep has removed another
\* key's window that the reference keeps
C37_Witness ==
    /\ lastCall.op = "isRateLimited"
    /\ ref # Unfollowed
    /\ Cardinality(ref.used) = maxTrackedKeys
    /\ lastCall.result = 1
    /\ ref.result = 1
    /\ SweptKeys # {}

\* a call on WatchedKey at a time inside the window in which the key was
\* reported limited, in a call sequence whose timestamps never decreased
CalledWhileLimited ==
    /\ observe = "limits"
    /\ lastCall'.op = "isRateLimited"
    /\ lastCall'.key = WatchedKey
    /\ limited.start >= 0
    /\ mono' >= 0
    /\ limited'.at - limited.start < windowMs

\* C38 as stated: once isRateLimited(k, t) has returned true within a window,
\* every further call for k with t - windowStart < windowMs returns true as
\* well, however many calls for other keys come between and whatever
\* maxTrackedKeys is.
C38_LimitHoldsWhateverOtherKeys ==
    [][CalledWhileLimited => lastCall'.result = 1]_vars

\* C38: once isRateLimited(k, t) has returned true within a window, every
\* further call for k with t - windowStart < windowMs returns true as well,
\* whatever calls for other keys come between, as long as k has not been
\* evicted for capacity (timestamps that never decrease).
C38_LimitHoldsWhileTracked ==
    [][(CalledWhileLimited /\ MapHas(state, WatchedKey)) => lastCall'.result = 1]_vars

\* the limited key is called again in its window after another key was
\* called, and is still limited
C38_Witness ==
    /\ lastCall.op = "isRateLimited"
    /\ lastCall.key = WatchedKey
    /\ lastCall.result = 1
    /\ limited.start >= 0
    /\ limited.others
    /\ MapGet(state, WatchedKey).count > maxRequests + 1
    /\ Len(state) = maxTrackedKeys

\* a call with the empty key
EmptyKeyCall ==
    /\ lastCall'.op \in {"isRateLimited", "increment"}
    /\ lastCall'.key = ""

\* C39: an empty key is never tracked: isRateLimited("") returns false and
\* increment("") returns 0, and neither call changes the map, its recency
\* order, size() or the last-sweep time, in any state.
C39_EmptyKeyNeverTracked ==
    [][EmptyKeyCall =>
        /\ lastCall'.result = 0
        /\ size' = size
        /\ UNCHANGED <<state, lastPruneMs, counters, ctrLastPruneMs>>]_vars

\* an empty-key call has returned in a state where the map is full, a sweep
\* has run before, and a call with another key at the latest time would sweep
\* again and remove an entry
C39_Witness ==
    /\ lastCall.op \in {"isRateLimited", "increment"}
    /\ lastCall.key = ""
    /\ lastCall.result = 0
    /\ IF guard = "limiter"
       THEN /\ Len(state) = maxTrackedKeys
            /\ lastPruneMs > 0
            /\ LimiterSweepDue(MaxTime)
            /\ Len(LimiterSwept(MaxTime)) < Len(state)
       ELSE /\ Len(counters) = maxTrackedKeys
            /\ ctrLastPruneMs > 0
            /\ CounterSweepDue(MaxTime)
            /\ Len(CounterSwept(MaxTime)) < Len(counters)

\* the outcome of an event of the child: {error} for 'error', {code, signal}
\* for 'close'
Outcome(event) ==
    IF event.name = "error"
    THEN [code |-> NoValue, signal |-> NoValue, error |-> event.err]
    ELSE [code |-> event.code, signal |-> event.signal, error |-> NoValue]

\* C40: waitForExit resolves exactly once, with the outcome of whichever of
\* the child's 'error' and 'close' events fires first; an event arriving
\* after it has settled does not change the result, for either order of the
\* two events.
C40_ResolvesOnceWithFirstEvent ==
    /\ resolveCalls <= 1
    /\ emitted = <<>> => (exit = Pending /\ ~settled /\ resolveCalls = 0)
    /\ emitted # <<>> => (exit = Outcome(emitted[1]) /\ settled /\ resolveCalls = 1)

\* the child closed first and emitted an error after the promise had settled:
\* the promise holds the code and signal of the close
C40_Witness ==
    /\ Len(emitted) >= 2
    /\ emitted[1].name = "close"
    /\ emitted[2].name = "error"
    /\ listeners = {}
    /\ exit.error = NoValue
    /\ exit.code = emitted[1].code
    /\ resolveCalls = 1

====
